---------------------------- MODULE Spec2Model ----------------------------
(***************************************************************************)
(* The Test Hardware Manager Plugin: the NodePool reconciler               *)
(* (internal/controller/hardwaremanagement/nodepool_controller.go) and the *)
(* HwMgrService allocation engine working on the "nodelist" configmap.     *)
(*                                                                         *)
(* Every call to the API server (Get, Create, Update, Delete) is one       *)
(* atomic step of the worker that makes it; the code between two calls     *)
(* only touches the worker's own memory and belongs to the step of the     *)
(* call that precedes it.  One worker per NodePool runs Reconcile; the     *)
(* workers of different NodePools interleave freely.  Every API call may   *)
(* fail; a configmap or NodePool Update made from a stale resourceVersion  *)
(* is rejected by the API server (conflict).                               *)
(***************************************************************************)
EXTENDS Integers, Sequences, FiniteSets, TLC

\* Largest nodegroup size a NodePool of the model asks for.
MaxSize == 2

\* Largest number of API calls that fail in one run of the model.
MaxFailures == 1

CloudIDs == {"c1", "c2"}

GroupNames == {"g1", "g2"}

HwProfiles == {"P", "Q"}

\* The node names of the catalogs, in ascending (slices.Sort) order.
NodeOrder == <<"a1", "a2", "b1">>

NodeNames == {NodeOrder[i] : i \in DOMAIN NodeOrder}

\* No value (a nil pointer, an absent object).
Nil == "nil"

VARIABLES
    resources,    \* configmap data["resources"]: node name -> hwprofile
    nodeGroup,    \* spec.nodeGroup of each NodePool: cloudID -> Seq of groups
    revision,     \* which revision of the service runs: "part_000" or "hwmgr.go"
    nodelist,     \* the nodelist configmap: whether it exists, and the shape
                  \* of its data["resources"] and data["allocations"]
    cmVersion,    \* resourceVersion of the nodelist configmap
    allocations,  \* configmap data["allocations"]: the clouds list
    secrets,      \* node names n whose Secret <n>-bmc-secret exists
    nodes,        \* the Node CRs: node name -> the object, NoNode when absent
    nodepool,     \* the NodePool CRs: cloudID -> the object
    pc,           \* where the worker of each NodePool is in Reconcile
    np,           \* the worker's copy of the NodePool, as of its last Get/Update
    cm,           \* the worker's configmap copy: [version, allocations]
    iter,         \* the worker's loop state, and in "before" the length of
                  \* each group's list as the pass read it at its start
    result,       \* what the worker's last Reconcile returned
    failures,     \* the number of API calls that failed so far
    queue         \* the controller's workqueue, for each NodePool key: "queued"
                  \* or "empty", and "any" in the runs that let Reconcile
                  \* start at any time

srvVars == <<cmVersion, allocations, secrets, nodes, nodepool>>
cfgVars == <<resources, nodeGroup, revision, nodelist>>
locVars == <<pc, np, cm, iter, result>>
vars == <<resources, nodeGroup, revision, nodelist, cmVersion, allocations, secrets, nodes, nodepool,
          pc, np, cm, iter, result, failures, queue>>

\* The outcomes of an API call: it goes through, or (while the model's budget
\* of failures lasts) the API server or the network fails it.
Outcomes == IF failures < MaxFailures THEN BOOLEAN ELSE {TRUE}

Fault(ok) == failures' = IF ok THEN failures ELSE failures + 1

Range(s) == {s[i] : i \in DOMAIN s}

Min(a, b) == IF a < b THEN a ELSE b

Rank(n) == CHOOSE i \in DOMAIN NodeOrder : NodeOrder[i] = n

\* slices.Sort on node names: insertion of each element at its place.
RECURSIVE Insert(_, _)
Insert(n, s) ==
    IF s = <<>> THEN <<n>>
    ELSE IF Rank(n) <= Rank(Head(s)) THEN <<n>> \o s
    ELSE <<Head(s)>> \o Insert(n, Tail(s))

RECURSIVE Sort(_)
Sort(s) == IF s = <<>> THEN <<>> ELSE Insert(Head(s), Sort(Tail(s)))

\* map[string][]string with no key: every lookup gives the nil slice.
EmptyNodegroups == [g \in GroupNames |-> <<>>]

cmAllocatedCloud(cloudID) == [cloudID |-> cloudID, nodegroups |-> EmptyNodegroups]

\* The search loop with index starting at the first entry instead of -1.
FindCloudFromFirst(clouds, cloudID) ==
    IF \E i \in DOMAIN clouds : clouds[i].cloudID = cloudID
    THEN CHOOSE i \in DOMAIN clouds :
            /\ clouds[i].cloudID = cloudID
            /\ \A j \in DOMAIN clouds : clouds[j].cloudID = cloudID => i <= j
    ELSE Min(1, Len(clouds))

\* The first index of the clouds list holding cloudID, 0 when there is none
\* (the search loops of AllocateNode, IsNodeFullyAllocated, GetAllocatedNodes
\* and ReleaseNodePool).
FindCloud(clouds, cloudID) ==
    IF \E i \in DOMAIN clouds : clouds[i].cloudID = cloudID
    THEN CHOOSE i \in DOMAIN clouds :
            /\ clouds[i].cloudID = cloudID
            /\ \A j \in DOMAIN clouds : clouds[j].cloudID = cloudID => i <= j
    ELSE 0

\* getFreeNodesInProfile without the inuse map: every node of the profile.
getFreeNodesInProfileNoInuse(res, clouds, profname) ==
    {n \in DOMAIN res : res[n] = profname}

\* getFreeNodesInProfile: the nodes of the profile that no group of no cloud
\* lists.  Go ranges over the map resources.Nodes in an unspecified order, so
\* the result is kept as a set: its length is the cardinality, and its first
\* element may be any member.
getFreeNodesInProfile(res, clouds, profname) ==
    LET inuse == UNION {Range(clouds[i].nodegroups[g]) :
                            i \in DOMAIN clouds, g \in GroupNames}
    IN  {n \in DOMAIN res : res[n] = profname /\ n \notin inuse}


\* No condition (the nil *metav1.Condition).
NoCondition == [type |-> Nil, reason |-> Nil, status |-> Nil]

\* meta.FindStatusCondition: the condition of the type, NoCondition when absent.
FindStatusCondition(conditions, type) ==
    IF \E c \in conditions : c.type = type
    THEN CHOOSE c \in conditions : c.type = type
    ELSE NoCondition

\* utils.SetStatusCondition: the condition of the type is added or replaced.
SetStatusCondition(conditions, type, reason, status) ==
    {c \in conditions : c.type # type}
        \cup {[type |-> type, reason |-> reason, status |-> status]}

\* determineAction that sends a Provisioned condition of status True to
\* processing.
determineActionTrueProcessing(conditions) ==
    IF conditions = {} THEN "NodePoolFSMCreate"
    ELSE IF FindStatusCondition(conditions, "Provisioned") # NoCondition
         THEN "NodePoolFSMProcessing"
         ELSE "NodePoolFSMNoop"

\* determineAction that never chooses processing.
determineActionNoProcessing(conditions) ==
    IF conditions = {} THEN "NodePoolFSMCreate" ELSE "NodePoolFSMNoop"

\* NodePoolReconciler.determineAction.
determineAction(conditions) ==
    IF conditions = {} THEN "NodePoolFSMCreate"
    ELSE LET provisionedCondition == FindStatusCondition(conditions, "Provisioned")
         IN  IF provisionedCondition # NoCondition
             THEN IF provisionedCondition.status = "True"
                  THEN "NodePoolFSMNoop"
                  ELSE "NodePoolFSMProcessing"
             ELSE "NodePoolFSMNoop"

\* The loop of ProcessNewNodePool over the nodegroups: 0 when every group
\* passes (return nil), else the index of the group the error is returned for.
ProcessNewNodePool(res, clouds, groups) ==
    LET short == {i \in DOMAIN groups :
                    groups[i].size >
                        Cardinality(getFreeNodesInProfile(res, clouds, groups[i].hwProfile))}
    IN  IF short = {} THEN 0
        ELSE CHOOSE i \in short : \A j \in short : i <= j

\* The admission check with "size >= free" for "size > free".
CreateNodePoolOffByOne(res, clouds, groups) ==
    LET short == {i \in DOMAIN groups :
                    groups[i].size >=
                        Cardinality(getFreeNodesInProfile(res, clouds, groups[i].hwProfile))}
    IN  IF short = {} THEN 0
        ELSE CHOOSE i \in short : \A j \in short : i <= j

\* HwMgrService.CreateNodePool, the admission check the controller calls: the
\* same loop as ProcessNewNodePool.
CreateNodePool(res, clouds, groups) ==
    LET short == {i \in DOMAIN groups :
                    groups[i].size >
                        Cardinality(getFreeNodesInProfile(res, clouds, groups[i].hwProfile))}
    IN  IF short = {} THEN 0
        ELSE CHOOSE i \in short : \A j \in short : i <= j

\* nodegroup.Size - len(cloud.Nodegroups[nodegroup.Name]).
Remaining(cloud, nodegroup) == nodegroup.size - Len(cloud.nodegroups[nodegroup.name])

\* The group loops with "remaining < 0" for "remaining <= 0".
ShortGroupsOffByOne(cloud, groups) ==
    {i \in DOMAIN groups : Remaining(cloud, groups[i]) >= 0}

\* The groups of the request that are not yet at their size.
ShortGroups(cloud, groups) == {i \in DOMAIN groups : Remaining(cloud, groups[i]) > 0}

\* The first group at or after index j that is not yet at its size,
\* Len(groups) + 1 when there is none (the "continue" of the group loops).
NextShort(cloud, groups, j) ==
    LET s == {i \in ShortGroups(cloud, groups) : i >= j}
    IN  IF s = {} THEN Len(groups) + 1
        ELSE CHOOSE i \in s : \A k \in s : i <= k

\* IsNodeFullyAllocated that takes a cloud without an entry for full.
IsNodeFullyAllocatedNoEntryFull(res, clouds, cloudID, groups) ==
    LET ci == FindCloud(clouds, cloudID)
    IN  IF ci = 0 THEN [full |-> TRUE, err |-> Nil]
        ELSE LET k == NextShort(clouds[ci], groups, 1)
             IN  IF k > Len(groups) THEN [full |-> TRUE, err |-> Nil]
                 ELSE IF Remaining(clouds[ci], groups[k]) >
                           Cardinality(getFreeNodesInProfile(res, clouds, groups[k].hwProfile))
                      THEN [full |-> FALSE, err |-> "insufficient"]
                      ELSE [full |-> FALSE, err |-> Nil]

\* HwMgrService.IsNodeFullyAllocated on a configmap that was read: the pair
\* (full, err).
IsNodeFullyAllocated(res, clouds, cloudID, groups) ==
    LET ci == FindCloud(clouds, cloudID)
    IN  IF ci = 0 THEN [full |-> FALSE, err |-> Nil]
        ELSE LET k == NextShort(clouds[ci], groups, 1)
             IN  IF k > Len(groups) THEN [full |-> TRUE, err |-> Nil]
                 ELSE IF Remaining(clouds[ci], groups[k]) >
                           Cardinality(getFreeNodesInProfile(res, clouds, groups[k].hwProfile))
                      THEN [full |-> FALSE, err |-> "insufficient"]
                      ELSE [full |-> FALSE, err |-> Nil]

\* len(cloud.Nodegroups[name]) for each group name of the cloudID's entry in
\* the configmap that was read, 0 throughout when it has no entry.
GroupLens(clouds, cloudID) ==
    [g \in GroupNames |->
        IF FindCloud(clouds, cloudID) = 0 THEN 0
        ELSE Len(clouds[FindCloud(clouds, cloudID)].nodegroups[g])]

RECURSIVE Concat(_, _, _)
Concat(cloud, groups, i) ==
    IF i > Len(groups) THEN <<>>
    ELSE cloud.nodegroups[groups[i].name] \o Concat(cloud, groups, i + 1)

\* GetAllocatedNodes without the slices.Sort.
GetAllocatedNodesUnsorted(clouds, cloudID, groups) ==
    LET ci == FindCloud(clouds, cloudID)
    IN  IF ci = 0 THEN <<>>
        ELSE Concat(clouds[ci], groups, 1)

\* HwMgrService.GetAllocatedNodes on a configmap that was read.
GetAllocatedNodes(clouds, cloudID, groups) ==
    LET ci == FindCloud(clouds, cloudID)
    IN  IF ci = 0 THEN <<>>
        ELSE Sort(Concat(clouds[ci], groups, 1))

\* ReleaseNodePool that forgets to cut the entry out.
DeleteCloudNone(clouds, index) == clouds

\* ReleaseNodePool that cuts out the first entry whatever the index.
DeleteCloudFirst(clouds, index) == Tail(clouds)

\* slices.Delete(clouds, index, index+1).
DeleteCloud(clouds, index) ==
    [i \in 1..(Len(clouds) - 1) |-> IF i < index THEN clouds[i] ELSE clouds[i + 1]]


\* The shapes a section of the configmap's data can have.
Sections == {"ok", "missing", "malformed"}

\* The configmap exists and both sections parse.
WellFormed == [exists |-> TRUE, resources |-> "ok", allocations |-> "ok"]

\* utils.GetConfigmap: the error of the Get, NotFound when the configmap does
\* not exist.
GetConfigmap(d) == IF d.exists THEN Nil ELSE "notfound"

\* utils.ExtractDataFromConfigMap: the error of reading a section, which is
\* missing from the data or does not parse.
ExtractDataFromConfigMap(section) == IF section = "ok" THEN Nil ELSE "parse"

\* GetCurrentResources as it would be if it returned the error of parsing the
\* allocations.
GetCurrentResourcesAllocationsFatal(d, clouds) ==
    IF GetConfigmap(d) # Nil
    THEN [err |-> GetConfigmap(d), allocations |-> <<>>]
    ELSE IF ExtractDataFromConfigMap(d.resources) # Nil
    THEN [err |-> ExtractDataFromConfigMap(d.resources), allocations |-> <<>>]
    ELSE IF ExtractDataFromConfigMap(d.allocations) # Nil
    THEN [err |-> ExtractDataFromConfigMap(d.allocations), allocations |-> <<>>]
    ELSE [err |-> Nil, allocations |-> clouds]

\* GetCurrentResources, lines 371-393, of the configmap d whose allocations
\* section, when it parses, holds clouds: the error of GetConfigmap or of
\* parsing the resources is returned; the error of parsing the allocations is
\* logged and dropped, and the allocations returned are empty.
GetCurrentResources(d, clouds) ==
    IF GetConfigmap(d) # Nil
    THEN [err |-> GetConfigmap(d), allocations |-> <<>>]
    ELSE IF ExtractDataFromConfigMap(d.resources) # Nil
    THEN [err |-> ExtractDataFromConfigMap(d.resources), allocations |-> <<>>]
    ELSE [err |-> Nil,
          allocations |-> IF ExtractDataFromConfigMap(d.allocations) # Nil
                          THEN <<>> ELSE clouds]


(***************************************************************************)
(* The initial states                                                      *)
(***************************************************************************)

\* A nodegroup of a NodePool spec.
NodeGroupSpec(name, hwProfile, size) == [name |-> name, hwProfile |-> hwProfile, size |-> size]

\* The nodegroup names of a NodePool, in spec order.
GroupOrder == <<"g1", "g2">>

\* The NodePool specs: up to two groups, each of any profile and of a size up
\* to MaxSize.
GroupLists ==
    UNION {{[i \in 1..k |-> NodeGroupSpec(GroupOrder[i], prof[i], size[i])] :
                prof \in [1..k -> HwProfiles], size \in [1..k -> 0..MaxSize]} :
           k \in 0..Len(GroupOrder)}

\* The catalog of the concurrent runs: two nodes of profile P, one of Q.
Catalog == [n \in NodeNames |-> IF n = "b1" THEN "Q" ELSE "P"]

\* The NodePools of the concurrent runs: c1 asks for one node of each
\* profile, c2 for one node of profile P.
Scenarios ==
    {[c \in CloudIDs |->
        IF c = "c1"
        THEN <<NodeGroupSpec("g1", "P", 1), NodeGroupSpec("g2", "Q", 1)>>
        ELSE <<NodeGroupSpec("g1", "P", 1)>>]}

\* A NodePool as the user creates it; otherFinalizer tells whether
\* metadata.finalizers holds a finalizer that is not the plugin's.
NewNodePool ==
    [exists |-> TRUE, rv |-> 1, deletionTimestamp |-> FALSE, finalizer |-> FALSE,
     otherFinalizer |-> FALSE, conditions |-> {}, nodeNames |-> <<>>]

\* A NodePool the API server does not hold.
Gone == [NewNodePool EXCEPT !.exists = FALSE, !.rv = 0]

\* A Node CR the API server does not hold.
NoNode == [nodePool |-> Nil, groupName |-> Nil, hwProfile |-> Nil, provisioned |-> FALSE]

NoCm == [version |-> 0, clouds |-> <<>>]

NoIter == [gi |-> 0, gj |-> 0, nodename |-> Nil, full |-> FALSE,
           allocatedNodes |-> <<>>, err |-> Nil, todo |-> <<>>,
           before |-> [g \in GroupNames |-> 0]]

NoResult == [res |-> Nil, err |-> Nil]

\* The plugin starts with the NodePools just created, nothing allocated and
\* every worker idle.
Init ==
    /\ resources = Catalog
    /\ nodeGroup \in Scenarios
    /\ revision = "part_000"
    /\ nodelist = WellFormed
    /\ cmVersion = 1
    /\ allocations = <<>>
    /\ secrets = {}
    /\ nodes = [n \in NodeNames |-> NoNode]
    /\ nodepool = [c \in CloudIDs |-> NewNodePool]
    /\ pc = [c \in CloudIDs |-> "idle"]
    /\ np = [c \in CloudIDs |-> Gone]
    /\ cm = [c \in CloudIDs |-> NoCm]
    /\ iter = [c \in CloudIDs |-> NoIter]
    /\ result = [c \in CloudIDs |-> NoResult]
    /\ failures = 0
    /\ queue = [c \in CloudIDs |-> "any"]

(***************************************************************************)
(* NodePoolReconciler                                                      *)
(***************************************************************************)

\* What the controller does with the key after Reconcile returned (res, err):
\* an error and a RequeueAfter interval put the key back (requeueWithError,
\* lines 53-56; requeueWithCustomInterval, lines 70-72), doNotRequeue, lines
\* 49-51, without an error does not.
Requeues(r) ==
    r.err # Nil \/ r.res \in {"requeueWithShortInterval", "requeueWithMediumInterval",
                              "requeueWithLongInterval"}

\* The key of NodePool c in the workqueue after a step: an event of the
\* NodePool (the controller watches it without predicates, lines 270-272: its
\* creation, every change, its removal) queues the key, the start of
\* Reconcile takes it, and the return of Reconcile puts it back or not.
Track(c) ==
    queue' = [queue EXCEPT ![c] =
                IF @ = "any" THEN "any"
                ELSE IF nodepool'[c] # nodepool[c] THEN "queued"
                ELSE IF pc'[c] = "idle" /\ Requeues(result'[c]) THEN "queued"
                ELSE IF pc[c] = "idle" THEN "empty"
                ELSE @]

\* Reconcile returns (res, err): the worker forgets its copies.
Return(c, res, err) ==
    /\ pc' = [pc EXCEPT ![c] = "idle"]
    /\ np' = [np EXCEPT ![c] = Gone]
    /\ cm' = [cm EXCEPT ![c] = NoCm]
    /\ iter' = [iter EXCEPT ![c] = NoIter]
    /\ result' = [result EXCEPT ![c] = [res |-> res, err |-> err]]

\* The worker goes on to its next API call.
Goto(c, label) ==
    /\ pc' = [pc EXCEPT ![c] = label]
    /\ UNCHANGED result

\* handleNodePoolObject on the worker's copy o of the NodePool.
handleNodePoolObject(c, o) ==
    LET action == determineAction(o.conditions)
    IN  IF action = "NodePoolFSMCreate"
        THEN Goto(c, "CreateNodePool") /\ np' = [np EXCEPT ![c] = o] /\ UNCHANGED <<cm, iter>>
        ELSE IF action = "NodePoolFSMProcessing"
        THEN Goto(c, "IsNodeFullyAllocated") /\ np' = [np EXCEPT ![c] = o]
                /\ UNCHANGED <<cm, iter>>
        ELSE Return(c, "doNotRequeue", Nil)

\* Reconcile, lines 91-137: r.Client.Get of the NodePool, then the choice
\* between the finalizer path, adding the finalizer and handleNodePoolObject.
Reconcile(c) ==
    /\ pc[c] = "idle"
    /\ queue[c] # "empty"
    /\ UNCHANGED <<srvVars, cfgVars>>
    /\ \E ok \in Outcomes : Fault(ok) /\
        IF ~ok THEN Return(c, "doNotRequeue", "api")
        ELSE IF ~nodepool[c].exists THEN Return(c, "doNotRequeue", Nil)
        ELSE LET o == nodepool[c]
             IN  IF o.deletionTimestamp /\ o.finalizer
                 THEN Goto(c, "ReleaseNodePool") /\ np' = [np EXCEPT ![c] = o]
                        /\ UNCHANGED <<cm, iter>>
                 ELSE IF ~o.finalizer
                 THEN Goto(c, "AddFinalizer") /\ np' = [np EXCEPT ![c] = o]
                        /\ UNCHANGED <<cm, iter>>
                 ELSE handleNodePoolObject(c, o)
    /\ Track(c)

\* The API server's answer to an Update of the NodePool sent from copy o.
NodePoolUpdateOk(c, o) == nodepool[c].exists /\ nodepool[c].rv = o.rv

\* Reconcile, lines 129-134, as it would be if it went on to
\* handleNodePoolObject when the Update that persists the finalizer fails.
AddFinalizerErrorIgnored(c) ==
    /\ pc[c] = "AddFinalizer"
    /\ UNCHANGED <<cfgVars, cmVersion, allocations, secrets, nodes>>
    /\ \E ok \in Outcomes : Fault(ok) /\
        IF ok /\ NodePoolUpdateOk(c, np[c]) /\ ~nodepool[c].deletionTimestamp
        THEN LET o == [nodepool[c] EXCEPT !.finalizer = TRUE, !.rv = @ + 1]
             IN  /\ nodepool' = [nodepool EXCEPT ![c] = o]
                 /\ handleNodePoolObject(c, o)
        ELSE /\ UNCHANGED nodepool
             /\ handleNodePoolObject(c, [np[c] EXCEPT !.finalizer = TRUE])
    /\ Track(c)

\* Reconcile, lines 129-134, as it would run if the Update that adds the
\* finalizer were accepted for a NodePool that is being deleted.
AddFinalizerWhileDeleting(c) ==
    /\ pc[c] = "AddFinalizer"
    /\ UNCHANGED <<cfgVars, cmVersion, allocations, secrets, nodes>>
    /\ \E ok \in Outcomes : Fault(ok) /\
        IF ok /\ NodePoolUpdateOk(c, np[c])
        THEN LET o == [nodepool[c] EXCEPT !.finalizer = TRUE, !.rv = @ + 1]
             IN  /\ nodepool' = [nodepool EXCEPT ![c] = o]
                 /\ handleNodePoolObject(c, o)
        ELSE /\ UNCHANGED nodepool
             /\ Return(c, "requeueWithError",
                       IF ok /\ nodepool[c].exists /\ nodepool[c].rv # np[c].rv
                       THEN "conflictNodePool" ELSE "api")
    /\ Track(c)

\* Reconcile, lines 129-134: AddFinalizer and r.Update.  The API server
\* refuses a stale resourceVersion and a new finalizer on an object that is
\* being deleted.
AddFinalizer(c) ==
    /\ pc[c] = "AddFinalizer"
    /\ UNCHANGED <<cfgVars, cmVersion, allocations, secrets, nodes>>
    /\ \E ok \in Outcomes : Fault(ok) /\
        IF ok /\ NodePoolUpdateOk(c, np[c]) /\ ~nodepool[c].deletionTimestamp
        THEN LET o == [nodepool[c] EXCEPT !.finalizer = TRUE, !.rv = @ + 1]
             IN  /\ nodepool' = [nodepool EXCEPT ![c] = o]
                 /\ handleNodePoolObject(c, o)
        ELSE /\ UNCHANGED nodepool
             /\ Return(c, "requeueWithError",
                       IF ok /\ nodepool[c].exists /\ nodepool[c].rv # np[c].rv
                       THEN "conflictNodePool" ELSE "api")
    /\ Track(c)

\* utils.UpdateK8sCRStatus of the NodePool with the given conditions and
\* node names: the object after the update, when the API server accepts it.
StatusUpdated(c, conditions, nodeNames) ==
    LET o == [nodepool[c] EXCEPT !.conditions = conditions, !.nodeNames = nodeNames]
    IN  IF o = nodepool[c] THEN o ELSE [o EXCEPT !.rv = @ + 1]

\* handleNodePoolCreate, line 170: CreateNodePool reads the configmap and
\* checks every nodegroup; the outcome is kept for the status update.
CreateNodePoolCall(c) ==
    /\ pc[c] = "CreateNodePool"
    /\ UNCHANGED <<srvVars, cfgVars, np, cm>>
    /\ Goto(c, "CreateStatus")
    /\ \E ok \in Outcomes : Fault(ok) /\
        LET r == GetCurrentResources(nodelist, allocations)
        IN  iter' = [iter EXCEPT ![c].err =
                        IF ~ok THEN "api"
                        ELSE IF r.err # Nil THEN r.err
                        ELSE IF CreateNodePool(resources, r.allocations, nodeGroup[c]) # 0
                        THEN "insufficient" ELSE Nil,
                     ![c].gi = IF ok /\ r.err = Nil
                               THEN CreateNodePool(resources, r.allocations, nodeGroup[c])
                               ELSE 0]
    /\ Track(c)

\* handleNodePoolCreate, lines 171-191: the condition is set to Failed or
\* InProgress and the status is written.
CreateStatus(c) ==
    /\ pc[c] = "CreateStatus"
    /\ UNCHANGED <<cfgVars, cmVersion, allocations, secrets, nodes>>
    /\ \E ok \in Outcomes : Fault(ok) /\
        IF ok /\ NodePoolUpdateOk(c, np[c])
        THEN /\ nodepool' = [nodepool EXCEPT ![c] =
                    StatusUpdated(c,
                        SetStatusCondition(np[c].conditions, "Provisioned",
                            IF iter[c].err # Nil THEN "Failed" ELSE "InProgress", "False"),
                        np[c].nodeNames)]
             /\ Return(c, "doNotRequeue", Nil)
        ELSE /\ UNCHANGED nodepool
             /\ Return(c, "requeueWithMediumInterval",
                       IF ok /\ nodepool[c].exists THEN "conflictNodePool" ELSE "api")
    /\ Track(c)


(***************************************************************************)
(* HwMgrService.CheckNodePoolProgress and AllocateNode                     *)
(***************************************************************************)

\* A configmap write that does not carry the resourceVersion it was read at.
ConfigMapUpdateUnchecked(version) == TRUE

\* The API server's answer to h.Client.Update(ctx, cm): the update is
\* accepted only from the configmap's current resourceVersion.
ConfigMapUpdateOk(version) == version = cmVersion

\* AllocateNode, lines 444-464, for the worker's configmap copy lcm from
\* nodegroup j on: the groups at their size are skipped; at the first short
\* group the free nodes are counted and one of them is taken, and the next
\* call is CreateBMCSecret.  With no short group left AllocateNode returns
\* nil and the loop of CheckNodePoolProgress (lines 721-731) calls it again,
\* once per nodegroup, before it returns (false, nil).
AllocateLoop(c, lcm, j) ==
    LET groups == nodeGroup[c]
        cloud == lcm.clouds[FindCloud(lcm.clouds, c)]
        k == NextShort(cloud, groups, j)
    IN  IF k > Len(groups)
        THEN IF iter[c].gi + 1 > Len(groups)
             THEN /\ Goto(c, "GetAllocatedNodes")
                  /\ cm' = [cm EXCEPT ![c] = NoCm]
                  /\ iter' = [iter EXCEPT ![c] = NoIter]
                  /\ UNCHANGED np
             ELSE /\ Goto(c, "AllocateNode")
                  /\ cm' = [cm EXCEPT ![c] = NoCm]
                  /\ iter' = [iter EXCEPT ![c] = [NoIter EXCEPT !.gi = iter[c].gi + 1,
                                                                !.before = iter[c].before]]
                  /\ UNCHANGED np
        ELSE LET freenodes == getFreeNodesInProfile(resources, lcm.clouds, groups[k].hwProfile)
             IN  IF Remaining(cloud, groups[k]) > Cardinality(freenodes)
                 THEN Return(c, "requeueWithError", "insufficient")
                 ELSE \E nodename \in freenodes :
                        /\ Goto(c, IF revision = "hwmgr.go" THEN "UpdateConfigmap"
                                   ELSE "CreateBMCSecret")
                        /\ cm' = [cm EXCEPT ![c] = lcm]
                        /\ iter' = [iter EXCEPT ![c].gj = k, ![c].nodename = nodename]
                        /\ UNCHANGED np

\* CheckNodePoolProgress, lines 713-719: IsNodeFullyAllocated reads the
\* configmap; an error is returned, a full NodePool ends the pass, and
\* otherwise the allocation loop starts.
IsNodeFullyAllocatedCall(c) ==
    /\ pc[c] = "IsNodeFullyAllocated"
    /\ UNCHANGED <<srvVars, cfgVars>>
    /\ \E ok \in Outcomes : Fault(ok) /\
        IF ~ok THEN Return(c, "requeueWithError", "api")
        ELSE IF GetCurrentResources(nodelist, allocations).err # Nil
        THEN Return(c, "requeueWithError", GetCurrentResources(nodelist, allocations).err)
        ELSE LET r == IsNodeFullyAllocated(resources,
                        GetCurrentResources(nodelist, allocations).allocations,
                        c, nodeGroup[c])
             IN  IF r.err # Nil THEN Return(c, "requeueWithError", r.err)
                 ELSE IF r.full \/ Len(nodeGroup[c]) = 0
                 THEN /\ Goto(c, "GetAllocatedNodes")
                      /\ iter' = [iter EXCEPT ![c] = [NoIter EXCEPT !.full = r.full]]
                      /\ UNCHANGED <<np, cm>>
                 ELSE /\ Goto(c, "AllocateNode")
                      /\ iter' = [iter EXCEPT ![c] =
                            [NoIter EXCEPT !.gi = 1,
                                !.before = GroupLens(
                                    GetCurrentResources(nodelist, allocations).allocations, c)]]
                      /\ UNCHANGED <<np, cm>>
    /\ Track(c)

\* AllocateNode, lines 425-441: GetCurrentResources, and the entry of the
\* cloud is found or appended to the worker's copy; then the group loop.
AllocateNode(c) ==
    /\ pc[c] = "AllocateNode"
    /\ UNCHANGED <<srvVars, cfgVars>>
    /\ \E ok \in Outcomes : Fault(ok) /\
        IF ~ok THEN Return(c, "requeueWithError", "api")
        ELSE IF GetCurrentResources(nodelist, allocations).err # Nil
        THEN Return(c, "requeueWithError", GetCurrentResources(nodelist, allocations).err)
        ELSE LET read == GetCurrentResources(nodelist, allocations).allocations
                 clouds == IF FindCloud(read, c) = 0
                           THEN Append(read, cmAllocatedCloud(c))
                           ELSE read
             IN  AllocateLoop(c, [version |-> cmVersion, clouds |-> clouds], 1)
    /\ Track(c)

\* CreateBMCSecret as it would be if it reported success without creating
\* the Secret.
CreateBMCSecretNotCreated(c) ==
    /\ pc[c] = "CreateBMCSecret"
    /\ UNCHANGED <<cfgVars, cmVersion, allocations, secrets, nodes, nodepool>>
    /\ \E ok \in Outcomes : Fault(ok) /\
        IF ok
        THEN Goto(c, "UpdateConfigmap") /\ UNCHANGED <<np, cm, iter>>
        ELSE Return(c, "requeueWithError", "secret")
    /\ Track(c)

\* CreateBMCSecret as it would be if AllocateNode called it after CreateNode:
\* its failure leaves the Node object of the chosen node behind.
CreateBMCSecretAfterCreateNode(c) ==
    /\ pc[c] = "CreateBMCSecret"
    /\ UNCHANGED <<cfgVars, cmVersion, allocations, nodepool>>
    /\ \E ok \in Outcomes : Fault(ok) /\
        IF ok
        THEN /\ secrets' = secrets \cup {iter[c].nodename}
             /\ Goto(c, "UpdateConfigmap")
             /\ UNCHANGED <<np, cm, iter, nodes>>
        ELSE /\ UNCHANGED secrets
             /\ nodes' = [nodes EXCEPT ![iter[c].nodename] =
                    [nodePool |-> c, groupName |-> nodeGroup[c][iter[c].gj].name,
                     hwProfile |-> nodeGroup[c][iter[c].gj].hwProfile,
                     provisioned |-> FALSE]]
             /\ Return(c, "requeueWithError", "secret")
    /\ Track(c)

\* AllocateNode, lines 466-468: CreateBMCSecret creates or updates the Secret;
\* when decoding the credentials or the create fails, AllocateNode returns
\* its error ("secret").
CreateBMCSecret(c) ==
    /\ pc[c] = "CreateBMCSecret"
    /\ UNCHANGED <<cfgVars, cmVersion, allocations, nodes, nodepool>>
    /\ \E ok \in Outcomes : Fault(ok) /\
        IF ok
        THEN /\ secrets' = secrets \cup {iter[c].nodename}
             /\ Goto(c, "UpdateConfigmap")
             /\ UNCHANGED <<np, cm, iter>>
        ELSE /\ UNCHANGED secrets
             /\ Return(c, "requeueWithError", "secret")
    /\ Track(c)

\* The append as it would be if it put the node in place of the group's list.
AppendNodeReplacing(clouds, c, groupname, nodename) ==
    [clouds EXCEPT ![FindCloud(clouds, c)].nodegroups[groupname] = <<nodename>>]

\* AllocateNode, line 470: the node is appended to the group's list in the
\* worker's copy.
AppendNode(clouds, c, groupname, nodename) ==
    [clouds EXCEPT ![FindCloud(clouds, c)].nodegroups[groupname] = Append(@, nodename)]

\* AllocateNode, lines 470-480: the node is appended and the configmap is
\* updated; the worker's copy takes the new resourceVersion.
UpdateConfigmap(c) ==
    /\ pc[c] = "UpdateConfigmap"
    /\ UNCHANGED <<resources, nodeGroup, revision, secrets, nodes, nodepool>>
    /\ LET clouds == AppendNode(cm[c].clouds, c, nodeGroup[c][iter[c].gj].name,
                                iter[c].nodename)
       IN  \E ok \in Outcomes : Fault(ok) /\
            IF ok /\ ConfigMapUpdateOk(cm[c].version)
            THEN /\ allocations' = clouds
                 /\ nodelist' = [nodelist EXCEPT !.allocations = "ok"]
                 /\ cmVersion' = cmVersion + 1
                 /\ cm' = [cm EXCEPT ![c] = [version |-> cmVersion + 1, clouds |-> clouds]]
                 /\ Goto(c, "CreateNode")
                 /\ UNCHANGED <<np, iter>>
            ELSE /\ UNCHANGED <<allocations, nodelist, cmVersion>>
                 /\ Return(c, "requeueWithError", IF ok THEN "conflict" ELSE "api")
    /\ Track(c)

\* CreateNode as it would be if AllocateNode went on after a failed CreateNode.
CreateNodeErrorIgnored(c) ==
    /\ pc[c] = "CreateNode"
    /\ UNCHANGED <<cfgVars, cmVersion, allocations, secrets, nodepool>>
    /\ \E ok \in Outcomes : Fault(ok) /\
        /\ nodes' = IF ok /\ nodes[iter[c].nodename] = NoNode
                    THEN [nodes EXCEPT ![iter[c].nodename] =
                            [nodePool |-> c, groupName |-> nodeGroup[c][iter[c].gj].name,
                             hwProfile |-> nodeGroup[c][iter[c].gj].hwProfile,
                             provisioned |-> FALSE]]
                    ELSE nodes
        /\ Goto(c, "UpdateNodeStatus")
        /\ UNCHANGED <<np, cm, iter>>
    /\ Track(c)

\* AllocateNode, lines 482-484: CreateNode; Client.Create fails when a Node
\* of that name exists.
CreateNode(c) ==
    /\ pc[c] = "CreateNode"
    /\ UNCHANGED <<cfgVars, cmVersion, allocations, secrets, nodepool>>
    /\ \E ok \in Outcomes : Fault(ok) /\
        IF ok /\ nodes[iter[c].nodename] = NoNode
        THEN /\ nodes' = [nodes EXCEPT ![iter[c].nodename] =
                    [nodePool |-> c, groupName |-> nodeGroup[c][iter[c].gj].name,
                     hwProfile |-> nodeGroup[c][iter[c].gj].hwProfile,
                     provisioned |-> FALSE]]
             /\ Goto(c, "UpdateNodeStatus")
             /\ UNCHANGED <<np, cm, iter>>
        ELSE /\ UNCHANGED nodes
             /\ Return(c, "requeueWithError", IF ok THEN "exists" ELSE "api")
    /\ Track(c)

\* AllocateNode, lines 486-489: UpdateNodeStatus gets the Node and writes its
\* status; then the group loop goes on with the next nodegroup.
UpdateNodeStatus(c) ==
    /\ pc[c] = "UpdateNodeStatus"
    /\ UNCHANGED <<cfgVars, cmVersion, allocations, secrets, nodepool>>
    /\ \E ok \in Outcomes : Fault(ok) /\
        IF ok /\ nodes[iter[c].nodename] # NoNode
        THEN /\ nodes' = [nodes EXCEPT ![iter[c].nodename].provisioned = TRUE]
             /\ AllocateLoop(c, cm[c], iter[c].gj + 1)
        ELSE /\ UNCHANGED nodes
             /\ Return(c, "requeueWithError", IF ok THEN "notfound" ELSE "api")
    /\ Track(c)

\* handleNodePoolProcessing, lines 201-205: GetAllocatedNodes reads the
\* configmap.
GetAllocatedNodesCall(c) ==
    /\ pc[c] = "GetAllocatedNodes"
    /\ UNCHANGED <<srvVars, cfgVars>>
    /\ \E ok \in Outcomes : Fault(ok) /\
        IF ok /\ GetCurrentResources(nodelist, allocations).err = Nil
        THEN /\ iter' = [iter EXCEPT ![c].allocatedNodes =
                            GetAllocatedNodes(
                                GetCurrentResources(nodelist, allocations).allocations,
                                c, nodeGroup[c])]
             /\ Goto(c, "ProcessingStatus")
             /\ UNCHANGED <<np, cm>>
        ELSE Return(c, "requeueWithError",
                    IF ok THEN GetCurrentResources(nodelist, allocations).err ELSE "api")
    /\ Track(c)

\* handleNodePoolProcessing as it would be if it returned doNotRequeue for a
\* NodePool that is not full.
ProcessingStatusNoRequeue(c) ==
    /\ pc[c] = "ProcessingStatus"
    /\ UNCHANGED <<cfgVars, cmVersion, allocations, secrets, nodes>>
    /\ \E ok \in Outcomes : Fault(ok) /\
        IF ok /\ NodePoolUpdateOk(c, np[c])
        THEN /\ nodepool' = [nodepool EXCEPT ![c] =
                    StatusUpdated(c,
                        IF iter[c].full
                        THEN SetStatusCondition(np[c].conditions, "Provisioned",
                                                "Completed", "True")
                        ELSE np[c].conditions,
                        iter[c].allocatedNodes)]
             /\ Return(c, "doNotRequeue", Nil)
        ELSE /\ UNCHANGED nodepool
             /\ Return(c, "requeueWithError",
                       IF ok /\ nodepool[c].exists THEN "conflictNodePool" ELSE "api")
    /\ Track(c)

\* handleNodePoolProcessing, lines 207-228: Completed is set when the pass
\* found the NodePool full, and the status is written.
ProcessingStatus(c) ==
    /\ pc[c] = "ProcessingStatus"
    /\ UNCHANGED <<cfgVars, cmVersion, allocations, secrets, nodes>>
    /\ \E ok \in Outcomes : Fault(ok) /\
        IF ok /\ NodePoolUpdateOk(c, np[c])
        THEN /\ nodepool' = [nodepool EXCEPT ![c] =
                    StatusUpdated(c,
                        IF iter[c].full
                        THEN SetStatusCondition(np[c].conditions, "Provisioned",
                                                "Completed", "True")
                        ELSE np[c].conditions,
                        iter[c].allocatedNodes)]
             /\ Return(c, IF iter[c].full THEN "doNotRequeue"
                          ELSE "requeueWithShortInterval", Nil)
        ELSE /\ UNCHANGED nodepool
             /\ Return(c, "requeueWithError",
                       IF ok /\ nodepool[c].exists THEN "conflictNodePool" ELSE "api")
    /\ Track(c)


(***************************************************************************)
(* The finalizer path: HwMgrService.ReleaseNodePool                        *)
(***************************************************************************)

\* The orders in which Go may range over the keys of cloud.Nodegroups.
GroupOrders == {o \in [1..Cardinality(GroupNames) -> GroupNames] :
                    \A i, j \in DOMAIN o : i # j => o[i] # o[j]}

RECURSIVE NodesInOrder(_, _, _)
NodesInOrder(cloud, order, i) ==
    IF i > Len(order) THEN <<>>
    ELSE cloud.nodegroups[order[i]] \o NodesInOrder(cloud, order, i + 1)

\* ReleaseNodePool, lines 744-760: GetCurrentResources and the search for the
\* cloud's entry; with no entry it returns nil and Reconcile goes on to remove
\* the finalizer.  Otherwise the nodes of the entry are taken group by group.
ReleaseNodePool(c) ==
    /\ pc[c] = "ReleaseNodePool"
    /\ UNCHANGED <<srvVars, cfgVars>>
    /\ \E ok \in Outcomes : Fault(ok) /\
        IF ~ok THEN Return(c, "requeueWithError", "api")
        ELSE IF GetCurrentResources(nodelist, allocations).err # Nil
        THEN Return(c, "requeueWithError", GetCurrentResources(nodelist, allocations).err)
        ELSE LET read == GetCurrentResources(nodelist, allocations).allocations
                 index == FindCloud(read, c)
             IN  IF index = 0
                 THEN Goto(c, "RemoveFinalizer") /\ UNCHANGED <<np, cm, iter>>
                 ELSE \E order \in GroupOrders :
                        LET todo == NodesInOrder(read[index], order, 1)
                        IN  /\ Goto(c, IF todo = <<>> THEN "ReleaseUpdate"
                                       ELSE IF revision = "hwmgr.go" THEN "DeleteNode"
                                       ELSE "DeleteBMCSecret")
                            /\ cm' = [cm EXCEPT ![c] = [version |-> cmVersion,
                                                        clouds |-> read]]
                            /\ iter' = [iter EXCEPT ![c].todo = todo]
                            /\ UNCHANGED np
    /\ Track(c)

\* ReleaseNodePool, lines 764-766: DeleteBMCSecret; an absent Secret is not
\* an error.
DeleteBMCSecret(c) ==
    /\ pc[c] = "DeleteBMCSecret"
    /\ UNCHANGED <<cfgVars, cmVersion, allocations, nodes, nodepool>>
    /\ \E ok \in Outcomes : Fault(ok) /\
        IF ok
        THEN /\ secrets' = secrets \ {Head(iter[c].todo)}
             /\ Goto(c, "DeleteNode")
             /\ UNCHANGED <<np, cm, iter>>
        ELSE /\ UNCHANGED secrets
             /\ Return(c, "requeueWithError", "api")
    /\ Track(c)

\* Client.Delete of a Node: part_000, lines 627-630, drops a NotFound error
\* with client.IgnoreNotFound; hwmgr.go, lines 309-312, returns every error
\* of Client.Delete, NotFound included.
DeleteNodeOk(n) == revision = "part_000" \/ nodes[n] # NoNode

\* DeleteNode as it would be if it reported success and left the Node.
DeleteNodeKept(c) ==
    /\ pc[c] = "DeleteNode"
    /\ UNCHANGED <<cfgVars, cmVersion, allocations, secrets, nodepool, nodes>>
    /\ \E ok \in Outcomes : Fault(ok) /\
        IF ok /\ DeleteNodeOk(Head(iter[c].todo))
        THEN /\ iter' = [iter EXCEPT ![c].todo = Tail(@)]
             /\ Goto(c, IF Tail(iter[c].todo) = <<>> THEN "ReleaseUpdate"
                        ELSE IF revision = "hwmgr.go" THEN "DeleteNode"
                        ELSE "DeleteBMCSecret")
             /\ UNCHANGED <<np, cm>>
        ELSE Return(c, "requeueWithError", IF ok THEN "notfound" ELSE "api")
    /\ Track(c)

\* ReleaseNodePool, lines 768-770 (hwmgr.go, lines 445-449): DeleteNode.  Then
\* the next node, or the configmap update.
DeleteNode(c) ==
    /\ pc[c] = "DeleteNode"
    /\ UNCHANGED <<cfgVars, cmVersion, allocations, secrets, nodepool>>
    /\ \E ok \in Outcomes : Fault(ok) /\
        IF ok /\ DeleteNodeOk(Head(iter[c].todo))
        THEN /\ nodes' = [nodes EXCEPT ![Head(iter[c].todo)] = NoNode]
             /\ iter' = [iter EXCEPT ![c].todo = Tail(@)]
             /\ Goto(c, IF Tail(iter[c].todo) = <<>> THEN "ReleaseUpdate"
                        ELSE IF revision = "hwmgr.go" THEN "DeleteNode"
                        ELSE "DeleteBMCSecret")
             /\ UNCHANGED <<np, cm>>
        ELSE /\ UNCHANGED nodes
             /\ Return(c, "requeueWithError", IF ok THEN "notfound" ELSE "api")
    /\ Track(c)

\* ReleaseNodePool, lines 774-786: the entry is cut out of the worker's copy
\* and the configmap is updated.
ReleaseUpdate(c) ==
    /\ pc[c] = "ReleaseUpdate"
    /\ UNCHANGED <<resources, nodeGroup, revision, secrets, nodes, nodepool>>
    /\ \E ok \in Outcomes : Fault(ok) /\
        IF ok /\ ConfigMapUpdateOk(cm[c].version)
        THEN /\ allocations' = DeleteCloud(cm[c].clouds, FindCloud(cm[c].clouds, c))
             /\ nodelist' = [nodelist EXCEPT !.allocations = "ok"]
             /\ cmVersion' = cmVersion + 1
             /\ cm' = [cm EXCEPT ![c] =
                    [version |-> cmVersion + 1,
                     clouds |-> DeleteCloud(cm[c].clouds, FindCloud(cm[c].clouds, c))]]
             /\ Goto(c, "RemoveFinalizer")
             /\ UNCHANGED <<np, iter>>
        ELSE /\ UNCHANGED <<allocations, nodelist, cmVersion>>
             /\ Return(c, "requeueWithError", IF ok THEN "conflict" ELSE "api")
    /\ Track(c)

\* Reconcile, lines 120-125: RemoveFinalizer and r.Update; the API server
\* removes an object that is being deleted once its last finalizer is gone.
RemoveFinalizer(c) ==
    /\ pc[c] = "RemoveFinalizer"
    /\ UNCHANGED <<cfgVars, cmVersion, allocations, secrets, nodes>>
    /\ \E ok \in Outcomes : Fault(ok) /\
        IF ok /\ NodePoolUpdateOk(c, np[c])
        THEN /\ nodepool' = [nodepool EXCEPT ![c] =
                    IF nodepool[c].deletionTimestamp /\ ~nodepool[c].otherFinalizer
                    THEN Gone
                    ELSE [nodepool[c] EXCEPT !.finalizer = FALSE, !.rv = @ + 1]]
             /\ Return(c, "doNotRequeue", Nil)
        ELSE /\ UNCHANGED nodepool
             /\ Return(c, "requeueWithError",
                       IF ok /\ nodepool[c].exists THEN "conflictNodePool" ELSE "api")
    /\ Track(c)

(***************************************************************************)
(* The user                                                                *)
(***************************************************************************)

\* The user deletes the NodePool: the API server sets the deletion timestamp
\* while a finalizer holds the object, and removes the object otherwise.
UserDelete(c) ==
    /\ nodepool[c].exists
    /\ ~nodepool[c].deletionTimestamp
    /\ nodepool' = [nodepool EXCEPT ![c] =
            IF nodepool[c].finalizer \/ nodepool[c].otherFinalizer
            THEN [nodepool[c] EXCEPT !.deletionTimestamp = TRUE, !.rv = @ + 1]
            ELSE Gone]
    /\ UNCHANGED <<cfgVars, cmVersion, allocations, secrets, nodes, locVars, failures>>
    /\ Track(c)

Next ==
    \E c \in CloudIDs :
        \/ Reconcile(c)
        \/ AddFinalizer(c)
        \/ CreateNodePoolCall(c)
        \/ CreateStatus(c)
        \/ IsNodeFullyAllocatedCall(c)
        \/ AllocateNode(c)
        \/ CreateBMCSecret(c)
        \/ UpdateConfigmap(c)
        \/ CreateNode(c)
        \/ UpdateNodeStatus(c)
        \/ GetAllocatedNodesCall(c)
        \/ ProcessingStatus(c)
        \/ ReleaseNodePool(c)
        \/ DeleteBMCSecret(c)
        \/ DeleteNode(c)
        \/ ReleaseUpdate(c)
        \/ RemoveFinalizer(c)
        \/ UserDelete(c)

Spec == Init /\ [][Next]_vars


(***************************************************************************)
(* The admission check on its own: handleNodePoolCreate of c1, started on  *)
(* any catalog, any NodePool spec and any ledger c2 may have left.         *)
(***************************************************************************)

\* The nodes the cloudIDs of the set hold.
HeldBy(clouds, ids) ==
    UNION {Range(clouds[i].nodegroups[g]) :
                i \in {k \in DOMAIN clouds : clouds[k].cloudID \in ids}, g \in GroupNames}

\* The catalogs: any nodes of NodeNames, each of either profile.
AdmitCatalogs == UNION {[S -> HwProfiles] : S \in SUBSET NodeNames}

\* The nodes of the set in ascending order.
SortedSeq(S) == SelectSeq(NodeOrder, LAMBDA n : n \in S)

\* The number of catalog nodes of the profile.
CatalogCount(res, profile) == Cardinality({n \in DOMAIN res : res[n] = profile})

\* c2, admitted on the empty ledger, asks for the nodes of each profile, up
\* to MaxSize of them.
AdmitOther(res) ==
    <<NodeGroupSpec("g1", "P", Min(MaxSize, CatalogCount(res, "P"))),
      NodeGroupSpec("g2", "Q", Min(MaxSize, CatalogCount(res, "Q")))>>

\* The ledgers c2's allocation passes may have written on the catalog: no
\* entry, or an entry holding some nodes, of profile P in g1 and of profile Q
\* in g2.
AdmitLedgers(res) ==
    {<<>>} \cup
    {<<[cloudID |-> "c2",
        nodegroups |-> [g \in GroupNames |->
            SortedSeq({n \in held : res[n] = (IF g = "g1" THEN "P" ELSE "Q")})]]>> :
        held \in {h \in SUBSET DOMAIN res :
                    /\ h # {}
                    /\ \A pr \in HwProfiles :
                        Cardinality({n \in h : res[n] = pr}) <= MaxSize}}

InitAdmit ==
    /\ resources \in AdmitCatalogs
    /\ nodeGroup \in {ng \in [CloudIDs -> GroupLists] : ng["c2"] = AdmitOther(resources)}
    /\ revision = "part_000"
    /\ nodelist = WellFormed
    /\ cmVersion = 1
    /\ allocations \in AdmitLedgers(resources)
    /\ secrets = HeldBy(allocations, CloudIDs)
    /\ nodes = [n \in NodeNames |->
                    IF n \in HeldBy(allocations, CloudIDs)
                    THEN [nodePool |-> "c2",
                          groupName |-> IF resources[n] = "P" THEN "g1" ELSE "g2",
                          hwProfile |-> resources[n], provisioned |-> TRUE]
                    ELSE NoNode]
    /\ nodepool = [c \in CloudIDs |->
                    IF c = "c1"
                    THEN [NewNodePool EXCEPT !.finalizer = TRUE, !.rv = 2]
                    ELSE [NewNodePool EXCEPT !.finalizer = TRUE, !.rv = 3,
                            !.conditions = SetStatusCondition({}, "Provisioned",
                                                              "InProgress", "False")]]
    /\ pc = [c \in CloudIDs |-> IF c = "c1" THEN "CreateNodePool" ELSE "idle"]
    /\ np = [c \in CloudIDs |->
                IF c = "c1" THEN [NewNodePool EXCEPT !.finalizer = TRUE, !.rv = 2]
                ELSE Gone]
    /\ cm = [c \in CloudIDs |-> NoCm]
    /\ iter = [c \in CloudIDs |-> NoIter]
    /\ result = [c \in CloudIDs |-> NoResult]
    /\ failures = 0
    /\ queue = [c \in CloudIDs |-> "any"]

NextAdmit ==
    \E c \in CloudIDs :
        \/ CreateNodePoolCall(c)
        \/ CreateStatus(c)

SpecAdmit == InitAdmit /\ [][NextAdmit]_vars

(***************************************************************************)
(* The runs with a shortfall: c1 asks for both nodes of profile P, c2 for  *)
(* one of them, so whichever comes second finds the profile exhausted      *)
(* until the other is released.                                            *)
(***************************************************************************)

ScenariosShortfall ==
    {[c \in CloudIDs |->
        IF c = "c1"
        THEN <<NodeGroupSpec("g1", "P", 2)>>
        ELSE <<NodeGroupSpec("g1", "P", 1)>>]}

InitShortfall ==
    /\ resources = Catalog
    /\ nodeGroup \in ScenariosShortfall
    /\ revision = "part_000"
    /\ nodelist = WellFormed
    /\ cmVersion = 1
    /\ allocations = <<>>
    /\ secrets = {}
    /\ nodes = [n \in NodeNames |-> NoNode]
    /\ nodepool = [c \in CloudIDs |-> NewNodePool]
    /\ pc = [c \in CloudIDs |-> "idle"]
    /\ np = [c \in CloudIDs |-> Gone]
    /\ cm = [c \in CloudIDs |-> NoCm]
    /\ iter = [c \in CloudIDs |-> NoIter]
    /\ result = [c \in CloudIDs |-> NoResult]
    /\ failures = 0
    /\ queue = [c \in CloudIDs |-> "any"]

SpecShortfall == InitShortfall /\ [][Next]_vars

\* The steps of the worker of one NodePool.
Worker(c) ==
    \/ Reconcile(c)
    \/ AddFinalizer(c)
    \/ CreateNodePoolCall(c)
    \/ CreateStatus(c)
    \/ IsNodeFullyAllocatedCall(c)
    \/ AllocateNode(c)
    \/ CreateBMCSecret(c)
    \/ UpdateConfigmap(c)
    \/ CreateNode(c)
    \/ UpdateNodeStatus(c)
    \/ GetAllocatedNodesCall(c)
    \/ ProcessingStatus(c)
    \/ ReleaseNodePool(c)
    \/ DeleteBMCSecret(c)
    \/ DeleteNode(c)
    \/ ReleaseUpdate(c)
    \/ RemoveFinalizer(c)

\* The shortfall runs in which the user deletes c2 at some time, or never,
\* and never deletes c1.
NextShortfallFair ==
    \/ \E c \in CloudIDs : Worker(c)
    \/ UserDelete("c2")

\* These runs under the controller's scheduling: a started Reconcile runs to
\* its return, and a NodePool whose Reconcile returned an error or a requeue
\* interval, or whose object was updated, is reconciled again.
SpecShortfallFair ==
    InitShortfall /\ [][NextShortfallFair]_vars /\ \A c \in CloudIDs : WF_vars(Worker(c))

(***************************************************************************)
(* The two revisions of the service                                        *)
(***************************************************************************)

\* The source holds the service twice: part_000 (AllocateNode creates the
\* Secret at lines 466-468, ReleaseNodePool deletes Secret and Node at lines
\* 762-772, DeleteNode ignores NotFound) and hwmgr.go (AllocateNode, lines
\* 169-238, and ReleaseNodePool, lines 415-461, touch no Secret, DeleteNode,
\* lines 297-315, returns NotFound).  Either may be the one that runs.
InitRevisions ==
    /\ resources = Catalog
    /\ nodeGroup \in ScenariosShortfall
    /\ revision \in {"part_000", "hwmgr.go"}
    /\ nodelist = WellFormed
    /\ cmVersion = 1
    /\ allocations = <<>>
    /\ secrets = {}
    /\ nodes = [n \in NodeNames |-> NoNode]
    /\ nodepool = [c \in CloudIDs |-> NewNodePool]
    /\ pc = [c \in CloudIDs |-> "idle"]
    /\ np = [c \in CloudIDs |-> Gone]
    /\ cm = [c \in CloudIDs |-> NoCm]
    /\ iter = [c \in CloudIDs |-> NoIter]
    /\ result = [c \in CloudIDs |-> NoResult]
    /\ failures = 0
    /\ queue = [c \in CloudIDs |-> "any"]

SpecRevisions == InitRevisions /\ [][Next]_vars

\* The same under the controller's scheduling.
SpecRevisionsFair ==
    InitRevisions /\ [][NextShortfallFair]_vars /\ \A c \in CloudIDs : WF_vars(Worker(c))

(***************************************************************************)
(* The runs with a pass over two nodegroups: c1 asks for both nodes of     *)
(* profile P and for the node of profile Q, c2 for one node of profile P.  *)
(***************************************************************************)

ScenariosTwoGroups ==
    {[c \in CloudIDs |->
        IF c = "c1"
        THEN <<NodeGroupSpec("g1", "P", 2), NodeGroupSpec("g2", "Q", 1)>>
        ELSE <<NodeGroupSpec("g1", "P", 1)>>]}

InitTwoGroups ==
    /\ resources = Catalog
    /\ nodeGroup \in ScenariosTwoGroups
    /\ revision = "part_000"
    /\ nodelist = WellFormed
    /\ cmVersion = 1
    /\ allocations = <<>>
    /\ secrets = {}
    /\ nodes = [n \in NodeNames |-> NoNode]
    /\ nodepool = [c \in CloudIDs |-> NewNodePool]
    /\ pc = [c \in CloudIDs |-> "idle"]
    /\ np = [c \in CloudIDs |-> Gone]
    /\ cm = [c \in CloudIDs |-> NoCm]
    /\ iter = [c \in CloudIDs |-> NoIter]
    /\ result = [c \in CloudIDs |-> NoResult]
    /\ failures = 0
    /\ queue = [c \in CloudIDs |-> "any"]

SpecTwoGroups == InitTwoGroups /\ [][Next]_vars

(***************************************************************************)
(* The nodelist configmap in any shape                                     *)
(***************************************************************************)

\* The configmap may not exist, and each of its two sections may be missing
\* from the data or may not parse; nothing has been allocated yet.
InitLoad ==
    /\ resources = Catalog
    /\ nodeGroup \in ScenariosShortfall
    /\ revision = "part_000"
    /\ nodelist \in [exists : BOOLEAN, resources : Sections, allocations : Sections]
    /\ cmVersion = 1
    /\ allocations = <<>>
    /\ secrets = {}
    /\ nodes = [n \in NodeNames |-> NoNode]
    /\ nodepool = [c \in CloudIDs |-> NewNodePool]
    /\ pc = [c \in CloudIDs |-> "idle"]
    /\ np = [c \in CloudIDs |-> Gone]
    /\ cm = [c \in CloudIDs |-> NoCm]
    /\ iter = [c \in CloudIDs |-> NoIter]
    /\ result = [c \in CloudIDs |-> NoResult]
    /\ failures = 0
    /\ queue = [c \in CloudIDs |-> "any"]

SpecLoad == InitLoad /\ [][Next]_vars

(***************************************************************************)
(* The NodePools with any status conditions                                *)
(***************************************************************************)

\* The status conditions a NodePool may carry when it is reconciled: at most
\* one condition of type Provisioned, as handleNodePoolCreate and
\* handleNodePoolProcessing set it, and possibly a condition of another type.
ConditionSets ==
    {p \cup o :
        p \in {{}, {[type |-> "Provisioned", reason |-> "InProgress", status |-> "False"]},
                   {[type |-> "Provisioned", reason |-> "Failed", status |-> "False"]},
                   {[type |-> "Provisioned", reason |-> "Completed", status |-> "True"]}},
        o \in {{}, {[type |-> "Other", reason |-> "Other", status |-> "True"]}}}

InitConditions ==
    /\ resources = Catalog
    /\ nodeGroup \in Scenarios
    /\ revision = "part_000"
    /\ nodelist = WellFormed
    /\ cmVersion = 1
    /\ allocations = <<>>
    /\ secrets = {}
    /\ nodes = [n \in NodeNames |-> NoNode]
    /\ nodepool \in {[c \in CloudIDs |-> [NewNodePool EXCEPT !.conditions = cs[c]]] :
                        cs \in [CloudIDs -> ConditionSets]}
    /\ pc = [c \in CloudIDs |-> "idle"]
    /\ np = [c \in CloudIDs |-> Gone]
    /\ cm = [c \in CloudIDs |-> NoCm]
    /\ iter = [c \in CloudIDs |-> NoIter]
    /\ result = [c \in CloudIDs |-> NoResult]
    /\ failures = 0
    /\ queue = [c \in CloudIDs |-> "any"]

\* Reconcile up to the choice of determineAction.
NextConditions ==
    \E c \in CloudIDs :
        \/ Reconcile(c)
        \/ AddFinalizer(c)

SpecConditions == InitConditions /\ [][NextConditions]_vars

(***************************************************************************)
(* The shortfall runs with the workqueue: Reconcile of a NodePool starts   *)
(* only when its key is queued.                                            *)
(***************************************************************************)

\* The creation of each NodePool has queued its key.
InitQueue ==
    /\ resources = Catalog
    /\ nodeGroup \in ScenariosShortfall
    /\ revision = "part_000"
    /\ nodelist = WellFormed
    /\ cmVersion = 1
    /\ allocations = <<>>
    /\ secrets = {}
    /\ nodes = [n \in NodeNames |-> NoNode]
    /\ nodepool = [c \in CloudIDs |-> NewNodePool]
    /\ pc = [c \in CloudIDs |-> "idle"]
    /\ np = [c \in CloudIDs |-> Gone]
    /\ cm = [c \in CloudIDs |-> NoCm]
    /\ iter = [c \in CloudIDs |-> NoIter]
    /\ result = [c \in CloudIDs |-> NoResult]
    /\ failures = 0
    /\ queue = [c \in CloudIDs |-> "queued"]

SpecQueue == InitQueue /\ [][Next]_vars

(***************************************************************************)
(* The runs of one NodePool alone: c1 with any spec the catalog can        *)
(* satisfy, groups of size 0 and no group at all included; c2 does not     *)
(* exist and no API call fails.                                            *)
(***************************************************************************)

RECURSIVE Demand(_, _, _)
\* The number of nodes of the profile that the groups from the i-th on ask for.
Demand(groups, prof, i) ==
    IF i > Len(groups) THEN 0
    ELSE (IF groups[i].hwProfile = prof THEN groups[i].size ELSE 0)
         + Demand(groups, prof, i + 1)

\* The specs that ask of each profile for no more nodes than the catalog has.
ScenariosAlone ==
    {[c \in CloudIDs |-> IF c = "c1" THEN groups ELSE <<>>] :
        groups \in {gl \in GroupLists :
                      \A prof \in HwProfiles :
                        Demand(gl, prof, 1)
                          <= Cardinality(getFreeNodesInProfile(Catalog, <<>>, prof))}}

InitAlone ==
    /\ resources = Catalog
    /\ nodeGroup \in ScenariosAlone
    /\ revision = "part_000"
    /\ nodelist = WellFormed
    /\ cmVersion = 1
    /\ allocations = <<>>
    /\ secrets = {}
    /\ nodes = [n \in NodeNames |-> NoNode]
    /\ nodepool = [c \in CloudIDs |-> IF c = "c1" THEN NewNodePool ELSE Gone]
    /\ pc = [c \in CloudIDs |-> "idle"]
    /\ np = [c \in CloudIDs |-> Gone]
    /\ cm = [c \in CloudIDs |-> NoCm]
    /\ iter = [c \in CloudIDs |-> NoIter]
    /\ result = [c \in CloudIDs |-> NoResult]
    /\ failures = MaxFailures
    /\ queue = [c \in CloudIDs |-> "any"]

\* The worker of c1 runs; the user may delete c1.
NextAlone ==
    \/ Worker("c1")
    \/ UserDelete("c1")

\* Under the controller's scheduling: a started Reconcile runs to its return,
\* and the NodePool is reconciled again after a requeue interval, an error
\* or an update of the object.
SpecAlone == InitAlone /\ [][NextAlone]_vars /\ WF_vars(Worker("c1"))

(***************************************************************************)
(* The shortfall runs with NodePools that carry the finalizer of another   *)
(* controller: a deleted NodePool stays, with its deletion timestamp,      *)
(* after the plugin's finalizer is removed.                                *)
(***************************************************************************)

InitKept ==
    /\ resources = Catalog
    /\ nodeGroup \in ScenariosShortfall
    /\ revision = "part_000"
    /\ nodelist = WellFormed
    /\ cmVersion = 1
    /\ allocations = <<>>
    /\ secrets = {}
    /\ nodes = [n \in NodeNames |-> NoNode]
    /\ nodepool = [c \in CloudIDs |-> [NewNodePool EXCEPT !.otherFinalizer = TRUE]]
    /\ pc = [c \in CloudIDs |-> "idle"]
    /\ np = [c \in CloudIDs |-> Gone]
    /\ cm = [c \in CloudIDs |-> NoCm]
    /\ iter = [c \in CloudIDs |-> NoIter]
    /\ result = [c \in CloudIDs |-> NoResult]
    /\ failures = 0
    /\ queue = [c \in CloudIDs |-> "any"]

SpecKept == InitKept /\ [][Next]_vars

(***************************************************************************)
(* The runs of two NodePools of two nodegroups each: c1 asks for both      *)
(* nodes of profile P and then for the node of profile Q, c2 for the node  *)
(* of profile Q and then for both nodes of profile P.  The catalog can     *)
(* satisfy either of them, not both.                                       *)
(***************************************************************************)

ScenariosHoldAndWait ==
    {[c \in CloudIDs |->
        IF c = "c1"
        THEN <<NodeGroupSpec("g1", "P", 2), NodeGroupSpec("g2", "Q", 1)>>
        ELSE <<NodeGroupSpec("g1", "Q", 1), NodeGroupSpec("g2", "P", 2)>>]}

InitHoldAndWait ==
    /\ resources = Catalog
    /\ nodeGroup \in ScenariosHoldAndWait
    /\ revision = "part_000"
    /\ nodelist = WellFormed
    /\ cmVersion = 1
    /\ allocations = <<>>
    /\ secrets = {}
    /\ nodes = [n \in NodeNames |-> NoNode]
    /\ nodepool = [c \in CloudIDs |-> NewNodePool]
    /\ pc = [c \in CloudIDs |-> "idle"]
    /\ np = [c \in CloudIDs |-> Gone]
    /\ cm = [c \in CloudIDs |-> NoCm]
    /\ iter = [c \in CloudIDs |-> NoIter]
    /\ result = [c \in CloudIDs |-> NoResult]
    /\ failures = 0
    /\ queue = [c \in CloudIDs |-> "any"]

SpecHoldAndWait == InitHoldAndWait /\ [][Next]_vars

(***************************************************************************)
(* What the properties speak of                                            *)
(***************************************************************************)

\* The cloudID has an entry in the clouds list.
HasEntry(clouds, cloudID) == \E i \in DOMAIN clouds : clouds[i].cloudID = cloudID

\* The node lists of the cloudID's groups, all empty when it has no entry.
EntryOf(clouds, cloudID) ==
    IF HasEntry(clouds, cloudID)
    THEN (CHOOSE e \in Range(clouds) : e.cloudID = cloudID).nodegroups
    ELSE EmptyNodegroups

\* The entries of the other cloudIDs, in their order.
Others(clouds, cloudID) == SelectSeq(clouds, LAMBDA e : e.cloudID # cloudID)

\* The places of the ledger: (entry, group, position).
Slots(clouds) ==
    {<<i, g, k>> : i \in DOMAIN clouds, g \in GroupNames, k \in 1..Cardinality(NodeNames) + 1}

Filled(clouds) == {s \in Slots(clouds) : s[3] <= Len(clouds[s[1]].nodegroups[s[2]])}

\* Every group of the request has at least its requested number of nodes.
AllGroupsFull(clouds, cloudID, groups) ==
    \A i \in DOMAIN groups : Len(EntryOf(clouds, cloudID)[groups[i].name]) >= groups[i].size

\* The number of catalog nodes of the profile that no cloud entry lists.
FreeCount(res, clouds, profile) ==
    Cardinality({n \in DOMAIN res :
        /\ res[n] = profile
        /\ \A i \in DOMAIN clouds : \A g \in GroupNames :
                \A k \in DOMAIN clouds[i].nodegroups[g] : clouds[i].nodegroups[g][k] # n})

\* The groups that ask for more nodes than are free in their profile.
TooLarge(res, clouds, groups) ==
    {i \in DOMAIN groups : groups[i].size > FreeCount(res, clouds, groups[i].hwProfile)}

RECURSIVE SumSizes(_, _, _)
\* The sum of the sizes of the groups of the profile, from group i on.
SumSizes(groups, profile, i) ==
    IF i > Len(groups) THEN 0
    ELSE (IF groups[i].hwProfile = profile THEN groups[i].size ELSE 0)
            + SumSizes(groups, profile, i + 1)

\* The worker takes a step.
Steps(c) == pc'[c] # pc[c] \/ iter'[c] # iter[c] \/ result'[c] # result[c]

\* The worker's step is not one the API server or the network failed.
NoFault == failures' = failures

(***************************************************************************)
(* Properties                                                              *)
(***************************************************************************)

\* C1: no double allocation.  In every reachable state of the persisted
\* ledger no node name fills two places: neither two different (cloudID,
\* group) lists nor two positions of one list.
C1_NoDoubleAllocation ==
    \A s, t \in Filled(allocations) :
        s # t => allocations[s[1]].nodegroups[s[2]][s[3]]
                    # allocations[t[1]].nodegroups[t[2]][t[3]]

\* C1 witness: both clouds hold a node of the profile they compete for, and
\* a worker has just had a configmap write refused.
C1_Witness ==
    /\ \A c \in CloudIDs : EntryOf(allocations, c)["g1"] # <<>>
    /\ \E c \in CloudIDs : result[c].err = "conflict"

\* C2: no silent overwrite.  The persisted ledger changes only by the write
\* of a worker whose copy carries the stored resourceVersion, and the new
\* ledger is one mutation of the previous one: one node appended to one group
\* of the writer's cloudID, or the writer's entry removed; every other entry
\* is kept as it was.
C2_NoSilentOverwrite ==
    [][allocations' # allocations =>
        \E c \in CloudIDs :
            /\ pc[c] \in {"UpdateConfigmap", "ReleaseUpdate"}
            /\ cm[c].version = cmVersion
            /\ cmVersion' = cmVersion + 1
            /\ Others(allocations', c) = Others(allocations, c)
            /\ IF pc[c] = "UpdateConfigmap"
               THEN \E g \in GroupNames, n \in NodeNames :
                        EntryOf(allocations', c) =
                            [EntryOf(allocations, c) EXCEPT ![g] = Append(@, n)]
               ELSE HasEntry(allocations, c) /\ ~HasEntry(allocations', c)]_vars

\* C2 witness: a worker is about to write the ledger from a copy older than
\* the stored version, which holds another cloud's allocation.
C2_Witness ==
    \E c \in CloudIDs :
        /\ pc[c] \in {"UpdateConfigmap", "ReleaseUpdate"}
        /\ cm[c].version < cmVersion
        /\ HeldBy(allocations, CloudIDs \ {c}) # {}
        /\ HeldBy(allocations, CloudIDs \ {c}) # HeldBy(cm[c].clouds, CloudIDs \ {c})

C4_NoOverAllocation ==
    \A c \in CloudIDs : \A i \in DOMAIN nodeGroup[c] :
        Len(EntryOf(allocations, c)[nodeGroup[c][i].name]) <= nodeGroup[c][i].size

\* C4 witness: a NodePool with a group at its size is in a further pass,
\* after a pass that ended with a requeue or an error.
C4_Witness ==
    \E c \in CloudIDs :
        /\ Len(EntryOf(allocations, c)["g1"]) = nodeGroup[c][1].size
        /\ nodeGroup[c][1].size > 0
        /\ result[c].res \in {"requeueWithShortInterval", "requeueWithError"}
        /\ pc[c] = "AllocateNode"


\* C5: the allocation step is idempotent.  When AllocateNode is called, can
\* read the configmap, and finds every group of the request at its requested
\* size or above, it returns nil: no Secret and no Node is created, no
\* configmap write is made and the persisted ledger is the same before and
\* after; the pass goes on with its next AllocateNode call or with
\* GetAllocatedNodes.
C5_IdempotentAllocateNode ==
    [][\A c \in CloudIDs :
        (/\ pc[c] = "AllocateNode"
         /\ AllGroupsFull(allocations, c, nodeGroup[c])
         /\ Steps(c)
         /\ NoFault)
        => /\ pc'[c] \in {"AllocateNode", "GetAllocatedNodes"}
           /\ result'[c] = result[c]
           /\ allocations' = allocations
           /\ cmVersion' = cmVersion
           /\ secrets' = secrets
           /\ nodes' = nodes]_vars

\* C5 witness: the second AllocateNode call of a pass has found both groups
\* of c1 allocated by the first call and has returned nil.
C5_Witness ==
    /\ pc["c1"] = "GetAllocatedNodes"
    /\ ~iter["c1"].full
    /\ AllGroupsFull(allocations, "c1", nodeGroup["c1"])
    /\ HeldBy(allocations, {"c1"}) # {}

\* C6: release reverses allocation.  When ReleaseNodePool has returned nil
\* for a cloudID, the free nodes getFreeNodesInProfile computes for every
\* profile are the catalog nodes of the profile minus the nodes the other
\* cloudIDs hold.
C6_ReleaseReversesAllocation ==
    [][\A c \in CloudIDs :
        (pc[c] \in {"ReleaseNodePool", "ReleaseUpdate"} /\ pc'[c] = "RemoveFinalizer")
        => \A p \in HwProfiles :
            getFreeNodesInProfile(resources', allocations', p) =
                {n \in DOMAIN resources : resources[n] = p}
                    \ HeldBy(allocations, CloudIDs \ {c})]_vars

\* C6 witness: c1 has released the nodes it held while c2 holds one.
C6_Witness ==
    /\ pc["c1"] = "RemoveFinalizer"
    /\ np["c1"].nodeNames # <<>>
    /\ cm["c1"] # NoCm
    /\ HeldBy(allocations, {"c2"}) # {}
    /\ HeldBy(allocations, {"c1"}) = {}

\* C7: the frame of release.  Every step of ReleaseNodePool(cloudID) leaves
\* the catalog and the entries of the other cloudIDs (groups, node lists,
\* order) as they are and deletes no Secret and no Node of a node another
\* cloudID holds; its configmap write removes the whole entry of the
\* cloudID.
C7_ReleaseFrame ==
    [][\A c \in CloudIDs :
        (/\ pc[c] \in {"ReleaseNodePool", "DeleteBMCSecret", "DeleteNode", "ReleaseUpdate"}
         /\ Steps(c))
        => /\ resources' = resources
           /\ Others(allocations', c) = Others(allocations, c)
           /\ \A n \in HeldBy(allocations, CloudIDs \ {c}) :
                /\ n \in secrets => n \in secrets'
                /\ nodes'[n] = nodes[n]
           /\ allocations' # allocations => ~HasEntry(allocations', c)]_vars

\* C7 witness: c2 has removed its entry, with two groups' worth of c1 nodes
\* in the ledger before it.
C7_Witness ==
    /\ pc["c2"] = "RemoveFinalizer"
    /\ cm["c2"] # NoCm
    /\ HasEntry(allocations, "c1")
    /\ Cardinality(HeldBy(allocations, {"c1"})) = 2
    /\ \A n \in HeldBy(allocations, {"c1"}) : n \in secrets /\ nodes[n] # NoNode

\* C8: ReleaseNodePool for a cloudID without a ledger entry, when it can read
\* the configmap, returns nil at once: Reconcile goes on to remove the
\* finalizer, and the configmap, the Secrets and the Nodes are untouched.
C8_ReleaseWithoutEntry ==
    [][\A c \in CloudIDs :
        (/\ pc[c] = "ReleaseNodePool"
         /\ ~HasEntry(allocations, c)
         /\ Steps(c)
         /\ NoFault)
        => /\ pc'[c] = "RemoveFinalizer"
           /\ result'[c] = result[c]
           /\ allocations' = allocations
           /\ cmVersion' = cmVersion
           /\ secrets' = secrets
           /\ nodes' = nodes]_vars

\* C8 witness: ReleaseNodePool has returned nil for c2, which has no entry,
\* while the ledger holds c1's entry.
C8_Witness ==
    /\ pc["c2"] = "RemoveFinalizer"
    /\ cm["c2"] = NoCm
    /\ ~HasEntry(allocations, "c2")
    /\ HasEntry(allocations, "c1")


\* C9 as claimed: feasibility is conservative.  The admission check never
\* reports success when, for some profile, the sizes of the request's groups
\* of that profile add up to more than the catalog has nodes of the profile.
C9_FeasibilityConservative ==
    \A c \in CloudIDs :
        (pc[c] = "CreateStatus" /\ iter[c].err = Nil)
        => \A p \in HwProfiles :
                SumSizes(nodeGroup[c], p, 1) <= CatalogCount(resources, p)

\* C10: the admission check, when it can read the configmap, fails exactly
\* when some group asks for more nodes than are free in its profile, and the
\* group it reports is the first such group in request order; succeeding or
\* failing, it writes neither the ledger nor a Secret nor a Node and makes no
\* ledger entry for the cloudID.
C10_AdmissionCheck ==
    [][\A c \in CloudIDs :
        (pc[c] = "CreateNodePool" /\ Steps(c))
        => LET short == TooLarge(resources, allocations, nodeGroup[c])
           IN  /\ NoFault =>
                    /\ (iter'[c].err = Nil) <=> (short = {})
                    /\ short = {} => iter'[c].gi = 0
                    /\ short # {} =>
                        /\ iter'[c].err = "insufficient"
                        /\ iter'[c].gi \in short
                        /\ \A i \in short : iter'[c].gi <= i
                    /\ ProcessNewNodePool(resources, allocations, nodeGroup[c])
                            = iter'[c].gi
               /\ allocations' = allocations
               /\ cmVersion' = cmVersion
               /\ secrets' = secrets
               /\ nodes' = nodes]_vars

\* C10 witness: the check has failed at the second group of c1, which the
\* catalog could hold but the nodes left free by c2 cannot, the first group
\* fitting.
C10_Witness ==
    /\ pc["c1"] = "CreateStatus"
    /\ iter["c1"].gi = 2
    /\ iter["c1"].err = "insufficient"
    /\ nodeGroup["c1"][1].size > 0
    /\ nodeGroup["c1"][2].size <= CatalogCount(resources, nodeGroup["c1"][2].hwProfile)
    /\ HeldBy(allocations, {"c2"}) # {}
    /\ ~HasEntry(allocations, "c1")


\* The node of the set that comes first in catalog order.
FirstInCatalogOrder(S) == CHOOSE n \in S : \A m \in S : Rank(n) <= Rank(m)

\* C11 as claimed: deterministic selection.  Whenever AllocateNode takes a
\* node for a group, it is the first free node of the group's profile in
\* catalog order, so that two runs from one catalog and one ledger snapshot
\* take the same node.
C11_DeterministicSelection ==
    [][\A c \in CloudIDs :
        (pc[c] = "AllocateNode" /\ pc'[c] = "CreateBMCSecret")
        => iter'[c].nodename =
            FirstInCatalogOrder(
                getFreeNodesInProfile(resources, allocations,
                                      nodeGroup[c][iter'[c].gj].hwProfile))]_vars

\* The ledger as AllocateNode sees it in its group loop: the configmap it
\* reads at its start, its own copy after its write.
LedgerSeen(c) == IF pc[c] = "AllocateNode" THEN allocations ELSE cm[c].clouds

\* C12 as claimed: the allocation step fails with insufficient resources
\* only when a group of the request is short and no node of its profile is
\* free; with a free node it assigns one to the group.
C12_FailsOnlyWhenNoneFree ==
    [][\A c \in CloudIDs :
        (/\ pc[c] \in {"AllocateNode", "UpdateNodeStatus"}
         /\ pc'[c] = "idle"
         /\ result'[c].err = "insufficient")
        => \E i \in DOMAIN nodeGroup[c] :
            /\ Len(EntryOf(LedgerSeen(c), c)[nodeGroup[c][i].name]) < nodeGroup[c][i].size
            /\ FreeCount(resources, LedgerSeen(c), nodeGroup[c][i].hwProfile) = 0]_vars

\* C13 as claimed: IsNodeFullyAllocated, when it can read the configmap,
\* returns a boolean and no error: true exactly when the cloudID has an entry
\* in which every group of the request has at least its requested number of
\* nodes, false otherwise, free nodes being too few included.
C13_FullyAllocatedWithoutError ==
    [][\A c \in CloudIDs :
        (pc[c] = "IsNodeFullyAllocated" /\ Steps(c) /\ NoFault)
        => /\ pc'[c] \in {"AllocateNode", "GetAllocatedNodes"}
           /\ result'[c] = result[c]
           /\ iter'[c].full <=>
                (HasEntry(allocations, c) /\ AllGroupsFull(allocations, c, nodeGroup[c]))]_vars

\* The node names of the list are in strictly ascending order.
Ascending(seq) == \A i, j \in DOMAIN seq : i < j => Rank(seq[i]) < Rank(seq[j])

\* C14: after every Processing pass that returns without error, the
\* NodePool's status.properties.nodeNames is the ascending list of the nodes
\* that the persisted ledger entry of its cloudID lists in the groups of the
\* request (empty when there is no entry).
C14_NodeNamesSortedUnion ==
    [][\A c \in CloudIDs :
        (pc[c] = "ProcessingStatus" /\ pc'[c] = "idle" /\ result'[c].err = Nil)
        => /\ Ascending(nodepool'[c].nodeNames)
           /\ Range(nodepool'[c].nodeNames) =
                UNION {Range(EntryOf(allocations', c)[nodeGroup[c][i].name]) :
                            i \in DOMAIN nodeGroup[c]}]_vars

\* C14 witness: c1's pass has published a1, a2 while its group lists a2
\* before a1.
C14_Witness ==
    /\ pc["c1"] = "idle"
    /\ result["c1"].err = Nil
    /\ EntryOf(allocations, "c1")["g1"] = <<"a2", "a1">>
    /\ nodepool["c1"].nodeNames = <<"a1", "a2">>

\* The reason of the NodePool's Provisioned condition, Nil when it is unset.
ProvisionedReason(o) == FindStatusCondition(o.conditions, "Provisioned").reason

\* The NodePool exists and its deletion has not been requested.
Live(o) == o.exists /\ ~o.deletionTimestamp

\* C15 as claimed: failed admission is terminal.  A NodePool that is not
\* being deleted and whose Provisioned condition has reason Failed has no
\* ledger entry, and no Node of it exists.
C15_FailedIsTerminal ==
    \A c \in CloudIDs :
        (Live(nodepool[c]) /\ ProvisionedReason(nodepool[c]) = "Failed")
        => /\ ~HasEntry(allocations, c)
           /\ \A n \in NodeNames : nodes[n].nodePool # c

\* The NodePool's Provisioned condition has status True.
Terminal(o) == FindStatusCondition(o.conditions, "Provisioned").status = "True"

\* C16: whenever a NodePool that is not being deleted carries Provisioned
\* with status True, the ledger has an entry for its cloudID in which every
\* group of the request has at least its requested number of nodes.
C16_CompletedIsFull ==
    \A c \in CloudIDs :
        (Live(nodepool[c]) /\ Terminal(nodepool[c]))
        => /\ HasEntry(allocations, c)
           /\ AllGroupsFull(allocations, c, nodeGroup[c])
           /\ ProvisionedReason(nodepool[c]) = "Completed"

\* C16 witness: c1 is Completed with both nodes of the profile, which it
\* could only get after c2 was released.
C16_Witness ==
    /\ Live(nodepool["c1"])
    /\ Terminal(nodepool["c1"])
    /\ Len(EntryOf(allocations, "c1")["g1"]) = 2
    /\ ~nodepool["c2"].exists
    /\ cmVersion >= 5

\* C17: terminal is a no-op.  While a NodePool's Provisioned condition is
\* True and its deletion is not requested, a Reconcile invocation on it ends
\* at once: it leaves the ledger, the Secrets, the Nodes and the NodePool as
\* they are and returns doNotRequeue, with no error when the Get of the
\* NodePool succeeds.
C17_TerminalIsNoop ==
    [][\A c \in CloudIDs :
        (Live(nodepool[c]) /\ Terminal(nodepool[c]) /\ pc[c] = "idle")
        => /\ pc'[c] = "idle"
           /\ result'[c].res = "doNotRequeue"
           /\ Steps(c) =>
                /\ allocations' = allocations
                /\ cmVersion' = cmVersion
                /\ secrets' = secrets
                /\ nodes' = nodes
                /\ nodepool' = nodepool
                /\ NoFault => result'[c].err = Nil]_vars

\* C17 witness: c1 is Completed and idle, its last Reconcile having returned
\* doNotRequeue and no error, while c2 is in the middle of a pass.
C17_Witness ==
    /\ Live(nodepool["c1"])
    /\ Terminal(nodepool["c1"])
    /\ pc["c1"] = "idle"
    /\ result["c1"] = [res |-> "doNotRequeue", err |-> Nil]
    /\ pc["c2"] = "UpdateConfigmap"

\* The moves of the Provisioned reason the claim allows: none, unset to
\* InProgress or Failed, InProgress to Completed.
AllowedMove(from, to) ==
    \/ from = to
    \/ from = Nil /\ to \in {"InProgress", "Failed"}
    \/ from = "InProgress" /\ to = "Completed"

\* C18 as claimed: the Provisioned condition of a NodePool only moves along
\* unset -> InProgress -> Completed or unset -> Failed.
C18_ConditionMoves ==
    [][\A c \in CloudIDs :
        (nodepool[c].exists /\ nodepool'[c].exists)
        => AllowedMove(ProvisionedReason(nodepool[c]), ProvisionedReason(nodepool'[c]))]_vars

\* C19: shortfall is retried until satisfied.  Once the other NodePool is
\* gone and its entry is released, so that the nodes of the profile stay
\* free for c1, the InProgress c1 (which is never deleted in these runs)
\* eventually is Completed with every group at its requested size.
C19_ShortfallRetried ==
    (/\ Live(nodepool["c1"])
     /\ ProvisionedReason(nodepool["c1"]) = "InProgress"
     /\ ~nodepool["c2"].exists
     /\ ~HasEntry(allocations, "c2"))
    ~> (/\ Live(nodepool["c1"])
        /\ Terminal(nodepool["c1"])
        /\ AllGroupsFull(allocations, "c1", nodeGroup["c1"]))

\* C19 witness: the last pass of the InProgress c1 failed for lack of free
\* nodes, and c2 has since been released and removed.
C19_Witness ==
    /\ Live(nodepool["c1"])
    /\ ProvisionedReason(nodepool["c1"]) = "InProgress"
    /\ pc["c1"] = "idle"
    /\ result["c1"] = [res |-> "requeueWithError", err |-> "insufficient"]
    /\ ~nodepool["c2"].exists
    /\ ~HasEntry(allocations, "c2")
    /\ ~AllGroupsFull(allocations, "c1", nodeGroup["c1"])

\* The NodePool carries no plugin finalizer any more: it is removed, or it is
\* being deleted without the finalizer.
Finalized(o) == ~o.exists \/ (o.deletionTimestamp /\ ~o.finalizer)

\* C20: no orphaned allocation.  The finalizer of a NodePool that is being
\* deleted goes away only in the RemoveFinalizer step of its worker, which
\* follows a ReleaseNodePool that returned nil, and whenever a NodePool is
\* removed or is being deleted without the finalizer, the ledger has no
\* entry for its cloudID.
C20_NoOrphanedAllocation ==
    /\ [](\A c \in CloudIDs : Finalized(nodepool[c]) => ~HasEntry(allocations, c))
    /\ [][\A c \in CloudIDs :
            (/\ nodepool[c].exists /\ nodepool[c].finalizer
             /\ Finalized(nodepool'[c]))
            => /\ nodepool[c].deletionTimestamp
               /\ pc[c] = "RemoveFinalizer"
               /\ ~HasEntry(allocations, c)]_vars

\* C20 witness: c1 allocated both its nodes, was deleted, released and
\* removed (the fifth version of the configmap is the release), while c2
\* holds its node.
C20_Witness ==
    /\ ~nodepool["c1"].exists
    /\ ~HasEntry(allocations, "c1")
    /\ HeldBy(allocations, {"c2"}) # {}
    /\ cmVersion = 5

\* C21: ReleaseNodePool removes the ledger entry only after the Secret and
\* the Node of every node of the entry are gone: at the step that writes the
\* ledger without the entry, no node of the entry has a Node object or a
\* Secret.
C21_ReleasedNodesTornDown ==
    [][\A c \in CloudIDs :
        (pc[c] = "ReleaseUpdate" /\ pc'[c] = "RemoveFinalizer")
        => \A n \in HeldBy(allocations, {c}) :
                n \notin secrets' /\ nodes'[n] = NoNode]_vars

\* C22: finalization is retry-safe.  A release pass never fails because an
\* object it wants to delete is already absent: no DeleteBMCSecret or
\* DeleteNode step of ReleaseNodePool returns the store's NotFound error.
C22_ReleaseRetrySafe ==
    [][\A c \in CloudIDs :
        (pc[c] \in {"DeleteBMCSecret", "DeleteNode"} /\ pc'[c] = "idle")
        => result'[c].err # "notfound"]_vars

\* C23: partial allocation never prevents release.  Once deletion of the
\* InProgress NodePool c2 is requested, in whatever state its allocation is,
\* the retried finalization eventually removes its ledger entry and its
\* finalizer, so that the NodePool is gone.
C23_PartialAllocationReleased ==
    (/\ nodepool["c2"].exists
     /\ nodepool["c2"].deletionTimestamp
     /\ ProvisionedReason(nodepool["c2"]) = "InProgress")
    ~> (~nodepool["c2"].exists /\ ~HasEntry(allocations, "c2"))

\* The step is worker c's CreateBMCSecret, CreateNode or UpdateNodeStatus and
\* the call fails: the API server or the network fails it, the Node to create
\* exists already, or the Node whose status is to be written is not found.
ProvisioningStepFails(c) ==
    /\ Steps(c)
    /\ \/ pc[c] \in {"CreateBMCSecret", "CreateNode", "UpdateNodeStatus"} /\ ~NoFault
       \/ pc[c] = "CreateNode" /\ nodes[iter[c].nodename] # NoNode
       \/ pc[c] = "UpdateNodeStatus" /\ nodes[iter[c].nodename] = NoNode

\* C24: when CreateBMCSecret, CreateNode or UpdateNodeStatus fails in a
\* Processing pass, AllocateNode stops there and Reconcile returns the error:
\* the step ends the pass with requeueWithError, and it changes neither the
\* ledger, the Secrets and Nodes, nor the NodePool's status and conditions.
C24_ProvisioningErrorEndsPass ==
    [][\A c \in CloudIDs :
        ProvisioningStepFails(c)
        => /\ pc'[c] = "idle"
           /\ result'[c].res = "requeueWithError"
           /\ result'[c].err \in {"api", "secret", "exists", "notfound"}
           /\ UNCHANGED <<allocations, cmVersion, secrets, nodes, nodepool>>]_vars

\* C24 witness: the pass of a NodePool that is not being deleted returned an
\* error and left a node in its ledger entry that has no Node object: its
\* CreateNode failed after the ledger write.
C24_Witness ==
    \E c \in CloudIDs :
        /\ Live(nodepool[c])
        /\ pc[c] = "idle"
        /\ result[c].res = "requeueWithError"
        /\ result[c].err = "api"
        /\ \E n \in HeldBy(allocations, {c}) : nodes[n] = NoNode

\* C25: whenever a NodePool that is not being deleted is Completed, every
\* node of its ledger entry has a Node object that names the NodePool's
\* cloudID, the node's group and the group's profile and whose status has
\* been written (Provisioned = Completed).
C25_CompletedNodesProvisioned ==
    \A c \in CloudIDs :
        (Live(nodepool[c]) /\ Terminal(nodepool[c]))
        => \A i \in DOMAIN nodeGroup[c] :
             \A n \in Range(EntryOf(allocations, c)[nodeGroup[c][i].name]) :
                nodes[n] = [nodePool |-> c, groupName |-> nodeGroup[c][i].name,
                            hwProfile |-> nodeGroup[c][i].hwProfile,
                            provisioned |-> TRUE]

\* C26: a credential Secret exists for each allocated node.  In every state
\* each node recorded in the ledger under a cloudID whose NodePool is not
\* being deleted has its Secret; the ledger write that records a node finds
\* the node's Secret in place; and a Secret goes away only in the
\* DeleteBMCSecret step of the release of the NodePool that holds the node
\* in the ledger.
C26_SecretForEachAllocatedNode ==
    /\ [](\A c \in CloudIDs :
            Live(nodepool[c]) => HeldBy(allocations, {c}) \subseteq secrets)
    /\ [][/\ \A c \in CloudIDs :
                (pc[c] = "UpdateConfigmap" /\ pc'[c] = "CreateNode")
                => iter[c].nodename \in secrets
          /\ \A n \in secrets \ secrets' :
                \E c \in CloudIDs :
                    /\ pc[c] = "DeleteBMCSecret"
                    /\ nodepool[c].deletionTimestamp
                    /\ n \in HeldBy(allocations, {c})]_vars

\* C26 witness: a NodePool that is not being deleted holds a node in the
\* ledger whose Node object was never created, and the node's Secret exists.
C26_Witness ==
    \E c \in CloudIDs :
        /\ Live(nodepool[c])
        /\ pc[c] = "idle"
        /\ \E n \in HeldBy(allocations, {c}) : nodes[n] = NoNode /\ n \in secrets

\* The calls of a worker that start with GetCurrentResources.
Loads == {"CreateNodePool", "IsNodeFullyAllocated", "AllocateNode",
          "GetAllocatedNodes", "ReleaseNodePool"}

\* The error a worker's step left: the one CreateNodePool keeps for the
\* status update, or the one Reconcile returned.
LoadError(c) ==
    IF pc[c] = "CreateNodePool" THEN iter'[c].err
    ELSE IF pc'[c] = "idle" THEN result'[c].err
    ELSE Nil

\* C27: loading the inventory.  A call of GetCurrentResources fails when the
\* configmap does not exist (NotFound) or its resources section is missing
\* or malformed (parse error), and the operation that made the call then
\* changes neither the ledger, the Secrets, the Nodes nor the NodePools.
\* When only the allocations section is missing or malformed the call
\* succeeds with an empty ledger, every node of the catalog is free in its
\* profile, and no operation fails on loading.
C27_LoadingTheInventory ==
    /\ [][\A c \in CloudIDs :
            (Steps(c) /\ pc[c] \in Loads /\ NoFault)
            => /\ ~nodelist.exists
                  => /\ LoadError(c) = "notfound"
                     /\ UNCHANGED <<srvVars, nodelist>>
               /\ (nodelist.exists /\ nodelist.resources # "ok")
                  => /\ LoadError(c) = "parse"
                     /\ UNCHANGED <<srvVars, nodelist>>
               /\ (nodelist.exists /\ nodelist.resources = "ok")
                  => LoadError(c) \notin {"notfound", "parse"}]_vars
    /\ []((nodelist.exists /\ nodelist.resources = "ok" /\ nodelist.allocations # "ok")
          => LET r == GetCurrentResources(nodelist, allocations)
             IN  /\ r.err = Nil
                 /\ r.allocations = <<>>
                 /\ \A p \in HwProfiles :
                        getFreeNodesInProfile(resources, r.allocations, p)
                            = {n \in DOMAIN resources : resources[n] = p})

\* C27 witness: the configmap exists with a malformed resources section, and
\* the Processing pass of a NodePool returned the parse error.
C27_Witness ==
    \E c \in CloudIDs :
        /\ nodelist.exists
        /\ nodelist.resources = "malformed"
        /\ pc[c] = "idle"
        /\ result[c] = [res |-> "requeueWithError", err |-> "parse"]

\* The calls of a Processing pass after its IsNodeFullyAllocated.
Allocating == {"AllocateNode", "CreateBMCSecret", "UpdateConfigmap", "CreateNode",
               "UpdateNodeStatus"}

\* C28: in one Processing pass (one call of CheckNodePoolProgress) each
\* group's node list in the ledger grows by at most one node: while the pass
\* allocates, no list of the NodePool's entry is more than one node longer
\* than the pass found it.
C28_OneNodePerGroupPerPass ==
    \A c \in CloudIDs :
        pc[c] \in Allocating
        => \A g \in GroupNames :
                Len(EntryOf(allocations, c)[g]) <= iter[c].before[g] + 1

\* C29: every successful ledger write of the allocation step differs from
\* the ledger persisted before it by exactly one node appended to exactly one
\* group of the writer's cloudID.  The entries keep their places and those of
\* the other cloudIDs are unchanged; the writer's entry is appended at the
\* end when the ledger had none; every list keeps its members.
C29_OneNodeAppended ==
    [][\A c \in CloudIDs :
        (pc[c] = "UpdateConfigmap" /\ pc'[c] = "CreateNode")
        => /\ \E g \in GroupNames, n \in NodeNames :
                EntryOf(allocations', c) =
                    [EntryOf(allocations, c) EXCEPT ![g] = Append(@, n)]
           /\ IF HasEntry(allocations, c)
              THEN /\ Len(allocations') = Len(allocations)
                   /\ \A i \in DOMAIN allocations :
                        /\ allocations'[i].cloudID = allocations[i].cloudID
                        /\ allocations[i].cloudID # c => allocations'[i] = allocations[i]
              ELSE /\ Len(allocations') = Len(allocations) + 1
                   /\ SubSeq(allocations', 1, Len(allocations)) = allocations
                   /\ allocations'[Len(allocations')].cloudID = c]_vars

\* C29 witness: a worker has just written its node into the ledger next to
\* the entry of the other cloudID, the ledger now holding all three nodes.
C29_Witness ==
    \E c \in CloudIDs :
        /\ pc[c] = "CreateNode"
        /\ Len(allocations) = 2
        /\ Cardinality(HeldBy(allocations, CloudIDs)) = 3

\* The step is one in which worker c ran handleNodePoolObject: its Reconcile
\* got the NodePool, not being deleted, with the finalizer on it, or its
\* AddFinalizer update was accepted.
Dispatches(c) ==
    /\ Steps(c)
    /\ NoFault
    /\ nodepool'[c].exists /\ nodepool'[c].finalizer /\ ~nodepool'[c].deletionTimestamp
    /\ \/ pc[c] = "idle"
       \/ pc[c] = "AddFinalizer" /\ nodepool'[c] # nodepool[c]

\* C30: determineAction selects Create exactly when the NodePool has no
\* Provisioned condition, conditions of other types or none; Processing
\* exactly when it has one whose status is not True; Noop exactly when the
\* status is True.
C30_ActionByProvisionedCondition ==
    [][\A c \in CloudIDs :
        Dispatches(c)
        => LET provisionedCondition ==
                    FindStatusCondition(nodepool'[c].conditions, "Provisioned")
           IN  /\ pc'[c] = "CreateNodePool" <=> provisionedCondition = NoCondition
               /\ pc'[c] = "IsNodeFullyAllocated"
                    <=> (provisionedCondition # NoCondition
                            /\ provisionedCondition.status # "True")
               /\ pc'[c] = "idle" <=> provisionedCondition.status = "True"]_vars

\* C31: the reschedule policy.  A Processing pass that returns without error
\* returns the short interval when it leaves the NodePool not Completed and
\* no reschedule when it sets Completed; an invocation on a NodePool whose
\* Provisioned condition is True returns no reschedule; and the key of an
\* existing InProgress NodePool whose worker is idle is always queued, by a
\* reschedule, an error retry or an event of the NodePool.
C31_ReschedulePolicy ==
    /\ [][\A c \in CloudIDs :
            /\ (pc[c] = "ProcessingStatus" /\ Steps(c) /\ result'[c].err = Nil)
                => result'[c].res = IF Terminal(nodepool'[c]) THEN "doNotRequeue"
                                    ELSE "requeueWithShortInterval"
            /\ (Dispatches(c) /\ Terminal(nodepool'[c]))
                => result'[c] = [res |-> "doNotRequeue", err |-> Nil]]_vars
    /\ [](\A c \in CloudIDs :
            (/\ nodepool[c].exists
             /\ ProvisionedReason(nodepool[c]) = "InProgress"
             /\ pc[c] = "idle")
            => queue[c] = "queued")

\* C31 witness: the Processing pass of an InProgress NodePool returned the
\* short interval without error, and its key is queued.
C31_Witness ==
    \E c \in CloudIDs :
        /\ Live(nodepool[c])
        /\ ProvisionedReason(nodepool[c]) = "InProgress"
        /\ pc[c] = "idle"
        /\ result[c] = [res |-> "requeueWithShortInterval", err |-> Nil]
        /\ queue[c] = "queued"

\* C32: when CreateBMCSecret fails for the chosen node, the pass ends with
\* an error, the persisted ledger is as before (a node that was free is still
\* free), and no Node object and no Secret is created.
C32_SecretFailureLeavesLedger ==
    [][\A c \in CloudIDs :
        (pc[c] = "CreateBMCSecret" /\ Steps(c) /\ pc'[c] # "UpdateConfigmap")
        => /\ pc'[c] = "idle"
           /\ result'[c] = [res |-> "requeueWithError", err |-> "secret"]
           /\ allocations' = allocations /\ cmVersion' = cmVersion
           /\ nodes' = nodes /\ secrets' = secrets
           /\ \A prof \in HwProfiles :
                 getFreeNodesInProfile(resources, allocations', prof)
                   = getFreeNodesInProfile(resources, allocations, prof)]_vars

\* C32 witness: the pass of a NodePool that is not being deleted returned the
\* error of CreateBMCSecret while a group of the NodePool is short of a node
\* and a node of the group's profile is free, without Secret and without
\* Node object.
C32_Witness ==
    \E c \in CloudIDs :
        /\ Live(nodepool[c])
        /\ pc[c] = "idle"
        /\ result[c] = [res |-> "requeueWithError", err |-> "secret"]
        /\ \E i \in DOMAIN nodeGroup[c] :
              /\ Len(EntryOf(allocations, c)[nodeGroup[c][i].name]) < nodeGroup[c][i].size
              /\ \E n \in getFreeNodesInProfile(resources, allocations,
                                                nodeGroup[c][i].hwProfile) :
                    n \notin secrets /\ nodes[n] = NoNode

\* C33: every admitted NodePool completes when nothing stands in its way.
\* With no failing API call and no other NodePool, a NodePool that is
\* InProgress and not being deleted, whatever its groups (of size 0, or none
\* at all), eventually has Provisioned = True unless its deletion is requested.
C33_AdmittedCompletes ==
    (Live(nodepool["c1"]) /\ ProvisionedReason(nodepool["c1"]) = "InProgress")
    ~> (Terminal(nodepool["c1"]) \/ ~Live(nodepool["c1"]))

\* C34: a Node object never outlives or precedes its ledger record.  Whenever
\* the Node of n exists, the ledger lists n in the group spec.groupName of
\* the entry of the cloudID spec.nodePool.
C34_NodeHasLedgerRecord ==
    \A n \in NodeNames :
        nodes[n] # NoNode
        => /\ HasEntry(allocations, nodes[n].nodePool)
           /\ n \in Range(EntryOf(allocations, nodes[n].nodePool)[nodes[n].groupName])

\* C34 witness: the release pass of a NodePool has deleted the Node of one of
\* its ledger nodes and not yet the Node of another, and the entry still
\* lists both.
C34_Witness ==
    \E c \in CloudIDs :
        /\ nodepool[c].exists /\ nodepool[c].deletionTimestamp
        /\ pc[c] \in {"DeleteBMCSecret", "DeleteNode"}
        /\ \E n, m \in HeldBy(allocations, {c}) :
              /\ nodes[n] # NoNode /\ nodes[n].nodePool = c /\ nodes[n].provisioned
              /\ nodes[m] = NoNode /\ m \notin Range(iter[c].todo)

\* The calls of the Create and the Processing pass.
PassLabels == {"CreateNodePool", "CreateStatus", "IsNodeFullyAllocated", "AllocateNode",
               "CreateBMCSecret", "UpdateConfigmap", "CreateNode", "UpdateNodeStatus",
               "GetAllocatedNodes", "ProcessingStatus"}

\* C35: the finalizer guards every allocation.  Whenever the ledger has an
\* entry for the cloudID of an existing NodePool, the NodePool carries the
\* finalizer; while a Create or Processing pass of a NodePool runs, the
\* NodePool exists and carries the finalizer; and when the Update that
\* persists the finalizer fails, Reconcile returns the error and runs neither.
C35_FinalizerGuardsAllocation ==
    /\ [](\A c \in CloudIDs :
            /\ (nodepool[c].exists /\ HasEntry(allocations, c)) => nodepool[c].finalizer
            /\ pc[c] \in PassLabels => (nodepool[c].exists /\ nodepool[c].finalizer))
    /\ [][\A c \in CloudIDs :
            (pc[c] = "AddFinalizer" /\ Steps(c) /\ nodepool'[c] = nodepool[c])
            => /\ pc'[c] = "idle"
               /\ result'[c].res = "requeueWithError"
               /\ result'[c].err # Nil]_vars

\* C35 witness: the Update that persists the finalizer of one NodePool failed,
\* so that it exists without finalizer and without ledger entry, while the
\* other NodePool carries the finalizer and has an entry.
C35_Witness ==
    \E c, d \in CloudIDs :
        /\ nodepool[c].exists /\ ~nodepool[c].finalizer
        /\ pc[c] = "idle" /\ result[c].res = "requeueWithError"
        /\ ~HasEntry(allocations, c)
        /\ nodepool[d].exists /\ nodepool[d].finalizer /\ HasEntry(allocations, d)

HoldsProfile(c, prof) ==
    \E i \in DOMAIN nodeGroup[c] :
        /\ nodeGroup[c][i].hwProfile = prof
        /\ EntryOf(allocations, c)[nodeGroup[c][i].name] # <<>>

\* A group of profile prof of NodePool c is short of nodes.
NeedsProfile(c, prof) ==
    \E i \in DOMAIN nodeGroup[c] :
        /\ nodeGroup[c][i].hwProfile = prof
        /\ Len(EntryOf(allocations, c)[nodeGroup[c][i].name]) < nodeGroup[c][i].size

\* NodePool c is InProgress, not being deleted, its worker is idle, and its
\* next pass ends at IsNodeFullyAllocated with the error of a shortfall.  As
\* long as no NodePool is deleted no node becomes free, so that every later
\* pass ends there too.
Blocked(c) ==
    /\ Live(nodepool[c])
    /\ ProvisionedReason(nodepool[c]) = "InProgress"
    /\ pc[c] = "idle"
    /\ IsNodeFullyAllocated(resources, allocations, c, nodeGroup[c]).err = "insufficient"

\* C37: no hold-and-wait deadlock.  There is no reachable state in which
\* both NodePools are blocked by a shortfall while each holds in the ledger a
\* node of a profile of which the other is short.
C37_NoHoldAndWait ==
    ~(/\ Blocked("c1") /\ Blocked("c2")
      /\ \E prof \in HwProfiles : HoldsProfile("c1", prof) /\ NeedsProfile("c2", prof)
      /\ \E prof \in HwProfiles : HoldsProfile("c2", prof) /\ NeedsProfile("c1", prof))

=============================================================================
